---- MODULE Spec2Model ----
(***************************************************************************)
(* Model of the GCC memory plugin (src/src/index.ts).                      *)
(*                                                                         *)
(* Documents are modelled as texts.  A text is a non-empty sequence of     *)
(* lines (the string split at "\n"), a line is a sequence of atoms, an     *)
(* atom is an indivisible piece of a line: a markup token the plugin       *)
(* writes ("---", "**Commit**:", "## Branch Purpose", ...), a word of user *)
(* input, the whitespace atom " ", or a base-36 digit of a commit hash.    *)
(* The empty string is the text with one empty line.  The regular          *)
(* expressions of the source are evaluated on this representation.         *)
(***************************************************************************)
EXTENDS Integers, Sequences, FiniteSets, TLC

VARIABLES
  commitDoc,   \* branch name -> text of branches/<name>/commit.md, or Absent
  logDoc,      \* branch name -> text of branches/<name>/log.md, or Absent
  metaDoc,     \* branch name -> text of branches/<name>/metadata.yaml, or Absent
  roadmap,     \* text of main.md, or Absent
  current,     \* text of the current_branch file, or Absent
  branchDirs,  \* names of the directories under branches/
  now,         \* the clock, Date.now()
  used,        \* how many operations of each kind have run
  ret,         \* the operation that ran last and whether it returned a failure
  history,     \* branch name -> the blocks written to its commit.md, as records
  calls        \* caller -> the tool call it has in flight and what that call has read

vars == <<commitDoc, logDoc, metaDoc, roadmap, current, branchDirs, now, used, ret, history, calls>>

(***************************************************************************)
(* Bounds of the model.                                                    *)
(***************************************************************************)
MaxCommits == 3
MaxBranches == 1
MaxMerges == 1
MaxLogs == 2
MaxTicks == 1
MaxOps == 4
MaxReads == 1
MaxEntryLines == 20

(* Clock value (milliseconds) at the start of the model. *)
StartTime == 36 * 36 * 36 - 1

(***************************************************************************)
(* Texts.                                                                  *)
(***************************************************************************)
E == <<>>
EmptyText == <<E>>
Absent == <<>>

WS == {" "}

Min(S) == CHOOSE x \in S : \A y \in S : x <= y
Max(S) == CHOOSE x \in S : \A y \in S : x >= y

(* String concatenation s + t. *)
Concat(s, t) ==
  SubSeq(s, 1, Len(s) - 1) \o <<s[Len(s)] \o t[1]>> \o Tail(t)

RECURSIVE Cat(_)
Cat(ts) == IF Len(ts) = 0 THEN EmptyText
           ELSE IF Len(ts) = 1 THEN ts[1]
           ELSE Concat(ts[1], Cat(Tail(ts)))

(* A one-line text made of the given atoms. *)
T(line) == <<line>>

BlankLine(l) == \A i \in 1..Len(l) : l[i] \in WS

RECURSIVE TrimLeftLine(_)
TrimLeftLine(l) == IF l = <<>> THEN l
                   ELSE IF l[1] \in WS THEN TrimLeftLine(Tail(l)) ELSE l

RECURSIVE TrimRightLine(_)
TrimRightLine(l) == IF l = <<>> THEN l
                    ELSE IF l[Len(l)] \in WS THEN TrimRightLine(SubSeq(l, 1, Len(l) - 1))
                    ELSE l

RECURSIVE TrimStart(_)
TrimStart(t) == IF Len(t) = 1 THEN <<TrimLeftLine(t[1])>>
                ELSE IF BlankLine(t[1]) THEN TrimStart(Tail(t))
                ELSE <<TrimLeftLine(t[1])>> \o Tail(t)

RECURSIVE TrimEnd(_)
TrimEnd(t) == IF Len(t) = 1 THEN <<TrimRightLine(t[1])>>
              ELSE IF BlankLine(t[Len(t)]) THEN TrimEnd(SubSeq(t, 1, Len(t) - 1))
              ELSE SubSeq(t, 1, Len(t) - 1) \o <<TrimRightLine(t[Len(t)])>>

(* String.prototype.trim *)
Trim(t) == TrimEnd(TrimStart(t))

EndsWith(l, a) == Len(l) > 0 /\ l[Len(l)] = a
StartsWith(l, a) == Len(l) > 0 /\ l[1] = a

(* Atoms that begin with "## ". *)
HeadingAtoms == {"## Branch Purpose", "## Previous Progress Summary",
                 "## This Commit's Contribution", "## Merge Summary",
                 "## Merged Branch Context (Auto-Retrieved)",
                 "## Merged Commits from '"}

IsHeading(l) == Len(l) > 0 /\ l[1] \in HeadingAtoms

(* Date.now().toString(36) *)
Digits36 == <<"0", "1", "2", "3", "4", "5", "6", "7", "8", "9", "a", "b",
              "c", "d", "e", "f", "g", "h", "i", "j", "k", "l", "m", "n",
              "o", "p", "q", "r", "s", "t", "u", "v", "w", "x", "y", "z">>

RECURSIVE ToString36(_)
ToString36(n) == IF n < 36 THEN <<Digits36[n + 1]>>
                 ELSE ToString36(n \div 36) \o <<Digits36[(n % 36) + 1]>>

(* new Date().toISOString(): the date part, "T", the time of day. *)
IsoDate(t) == <<"date">>
IsoString(t) == IsoDate(t) \o <<"T">> \o ToString36(t)

(***************************************************************************)
(* Regular expressions of commit.execute and merge.execute.                *)
(***************************************************************************)
NoMatch == <<>>

(* A purpose pattern that takes the last "## Branch Purpose" section of the
   document instead of the first. *)
PurposeMatchLast(c) ==
  LET I == {i \in 1..(Len(c) - 1) : EndsWith(c[i], "## Branch Purpose")}
  IN IF I = {} THEN NoMatch
     ELSE LET i == Max(I)
              J == {j \in (i + 1)..(Len(c) - 1) : IsHeading(c[j + 1])}
              j == IF J = {} THEN Len(c) ELSE Min(J)
          IN SubSeq(c, i + 1, j)

(* content.match(/## Branch Purpose\n([\s\S]*?)(?=\n## |$)/)?.[1] *)
PurposeMatch(c) ==
  LET I == {i \in 1..(Len(c) - 1) : EndsWith(c[i], "## Branch Purpose")}
  IN IF I = {} THEN NoMatch
     ELSE LET i == Min(I)
              J == {j \in (i + 1)..(Len(c) - 1) : IsHeading(c[j + 1])}
              j == IF J = {} THEN Len(c) ELSE Min(J)
          IN SubSeq(c, i + 1, j)

(* A previous-summary pattern that never matches. *)
PrevSummaryNoMatch(c) == NoMatch

(* lastCommit.match(/## Previous Progress Summary\n([\s\S]*?)(?=\n## This Commit)/)?.[1] *)
PrevSummaryMatch(c) ==
  LET I == {i \in 1..(Len(c) - 1) : EndsWith(c[i], "## Previous Progress Summary")}
  IN IF I = {} THEN NoMatch
     ELSE LET i == Min(I)
              J == {j \in (i + 1)..(Len(c) - 1) :
                      StartsWith(c[j + 1], "## This Commit's Contribution")}
          IN IF J = {} THEN NoMatch ELSE SubSeq(c, i + 1, Min(J))

(* lastCommit.match(/## This Commit's Contribution\n([\s\S]*?)(?=\n---|\n$|$)/)?.[1] *)
ContributionMatch(c) ==
  LET I == {i \in 1..(Len(c) - 1) : EndsWith(c[i], "## This Commit's Contribution")}
  IN IF I = {} THEN NoMatch
     ELSE LET i == Min(I)
              J == {j \in (i + 1)..Len(c) :
                      \/ j = Len(c)
                      \/ StartsWith(c[j + 1], "---")
                      \/ (j + 1 = Len(c) /\ c[j + 1] = E)}
          IN SubSeq(c, i + 1, Min(J))

(* m?.[1]?.trim() || "" *)
TrimOrEmpty(m) == IF m = NoMatch THEN EmptyText ELSE Trim(m)

(* content.split(/---\n\*\*Commit\*\*:/).filter(Boolean) *)
SplitPoints(c) ==
  {i \in 1..(Len(c) - 1) : EndsWith(c[i], "---") /\ StartsWith(c[i + 1], "**Commit**:")}

(* The piece of the split that begins after split point p (p = 0: at the
   start of the text) and runs to the next split point or the end. *)
Piece(c, p) ==
  LET later == {q \in SplitPoints(c) : q > p}
      head == IF p = 0 THEN c[1] ELSE Tail(c[p + 1])
      from == IF p = 0 THEN 1 ELSE p + 1
  IN IF later = {}
     THEN IF from = Len(c) THEN <<head>>
          ELSE <<head>> \o SubSeq(c, from + 1, Len(c))
     ELSE LET q == Min(later)
              cut == SubSeq(c[q], 1, Len(c[q]) - 1)
          IN IF q = from THEN <<SubSeq(head, 1, Len(head) - 1)>>
             ELSE <<head>> \o SubSeq(c, from + 1, q - 1) \o <<cut>>

AllCommits(c) ==
  LET starts == {p \in {0} \cup SplitPoints(c) : Piece(c, p) # EmptyText}
  IN [k \in 1..Cardinality(starts) |->
        Piece(c, CHOOSE p \in starts : Cardinality({q \in starts : q < p}) = k - 1)]

(***************************************************************************)
(* Inputs.                                                                 *)
(***************************************************************************)
Main == T(<<"main">>)
Exp == T(<<"exp">>)
PaddedExp == T(<<" ", "exp">>)

(* Branch names a caller passes; every path the plugin derives from them. *)
Names == {Main, Exp, PaddedExp}

(* Arguments of memory_commit: a plain contribution, one with surrounding
   whitespace, an empty one. *)
CommitArgs ==
  {[message |-> T(<<"A">>), contribution |-> T(<<"x">>), update_roadmap |-> FALSE],
   [message |-> T(<<"B">>), contribution |-> T(<<" ", "y">>), update_roadmap |-> TRUE],
   [message |-> T(<<"C">>), contribution |-> EmptyText, update_roadmap |-> FALSE]}

(* Arguments of memory_branch: a new branch, one with a blank purpose, a name
   with leading whitespace, the name of the branch that exists from the start. *)
BranchArgs ==
  {[name |-> Exp, purpose |-> T(<<"p">>)],
   [name |-> Exp, purpose |-> EmptyText],
   [name |-> PaddedExp, purpose |-> T(<<"q">>)],
   [name |-> Main, purpose |-> T(<<"r">>)]}

(* Arguments of memory_merge. *)
MergeTargets == {Main, Exp}
Summaries == {T(<<"s">>)}

(* Arguments of memory_log; Absent is an omitted argument. *)
LogArgs == {[entry |-> T(<<"e">>), observation |-> T(<<"o">>), thought |-> Absent, action |-> Absent],
            [entry |-> Absent, observation |-> T(<<"o">>), thought |-> Absent, action |-> T(<<"a">>)]}

(* Arguments of memory_remember. *)
RememberArgs == {[type |-> "decision", scope |-> T(<<"auth">>), content |-> T(<<"jwt">>),
                  issue |-> Absent, tags |-> <<>>]}

(* Arguments of memory_recall; an omitted query, scope or type is the empty
   set, an omitted branch_name is Absent.  A query, scope or type is one
   word. *)
RecallArgs ==
  {[query |-> {"jwt"}, branch_name |-> Absent, scope |-> {}, type |-> {}],
   [query |-> {"JWT"}, branch_name |-> Main, scope |-> {"auth"}, type |-> {"decision"}],
   [query |-> {}, branch_name |-> Exp, scope |-> {}, type |-> {}]}

(* Commit hashes a caller asks for: the hash of a commit made at the start
   time, its first two characters, the hash of a commit made a millisecond
   later. *)
HashQueries == {ToString36(StartTime), <<"z", "z">>, ToString36(StartTime + 1)}

(* Arguments of memory_context; an omitted level, lines or offset is the empty
   set, an omitted branch_name or commit_hash is Absent. *)
ContextArgs ==
  {[level |-> {}, branch_name |-> Absent, commit_hash |-> Absent, lines |-> {}, offset |-> {}],
   [level |-> {"branch"}, branch_name |-> Absent, commit_hash |-> Absent, lines |-> {}, offset |-> {}],
   [level |-> {"branch"}, branch_name |-> PaddedExp, commit_hash |-> Absent, lines |-> {}, offset |-> {}],
   [level |-> {"commits"}, branch_name |-> Exp, commit_hash |-> Absent, lines |-> {}, offset |-> {}],
   [level |-> {"commit"}, branch_name |-> Absent, commit_hash |-> Absent, lines |-> {}, offset |-> {}],
   [level |-> {"commit"}, branch_name |-> Absent, commit_hash |-> <<"z", "z">>, lines |-> {}, offset |-> {}],
   [level |-> {"commit"}, branch_name |-> Main, commit_hash |-> ToString36(StartTime), lines |-> {}, offset |-> {}],
   [level |-> {"log"}, branch_name |-> Absent, commit_hash |-> Absent, lines |-> {}, offset |-> {}],
   [level |-> {"log"}, branch_name |-> Exp, commit_hash |-> Absent, lines |-> {1}, offset |-> {2}],
   [level |-> {"metadata"}, branch_name |-> Exp, commit_hash |-> Absent, lines |-> {}, offset |-> {}]}

(* Number of steps so far that wrote or read a document or advanced the clock. *)
UsedTotal ==
  used.commits + used.branches + used.merges + used.logs + used.reads + (now - StartTime)

Truthy(s) == s # Absent /\ s # EmptyText

(***************************************************************************)
(* File paths and the active-branch pointer.                               *)
(***************************************************************************)
(* getCurrentBranch, src/src/index.ts:74-80 *)
getCurrentBranch == IF current # Absent THEN Trim(current) ELSE Main

(* setCurrentBranch, src/src/index.ts:82-84: the text written to the file *)
setCurrentBranch(branch) == branch

(* An existence test that also asks for the metadata document. *)
existsWithMetadata(branch) == commitDoc[branch] # Absent /\ metaDoc[branch] # Absent

(* `await getCommitFile(branch).exists()` *)
exists(branch) == commitDoc[branch] # Absent

(* `await file.exists() ? await file.text() : ""` *)
TextOr(doc, default) == IF doc # Absent THEN doc ELSE default

RoadmapDefault == <<<<"# Project Roadmap">>, E, E>>

(***************************************************************************)
(* memory_commit                                                           *)
(***************************************************************************)
(* index.ts:128-137 *)
BranchPurposeOf(branch, doc) ==
  LET default == IF branch = Main THEN T(<<"Main development branch">>)
                 ELSE Concat(T(<<"Branch: ">>), branch)
  IN IF doc = Absent THEN default
     ELSE IF TrimOrEmpty(PurposeMatch(doc)) # EmptyText
          THEN TrimOrEmpty(PurposeMatch(doc))
          ELSE default

(* A fold that joins the two parts with a newline only. *)
FoldNoBullet(prevPart, contribPart) == Cat(<<prevPart, <<E, E>>, contribPart>>)

(* index.ts:152: `${prevPart}\n- ${contribPart}` *)
Fold(prevPart, contribPart) == Cat(<<prevPart, <<E, <<"- ">>>>, contribPart>>)

(* index.ts:127, 139-158 *)
PreviousSummaryOf(doc) ==
  IF doc = Absent THEN EmptyText
  ELSE LET allCommits == AllCommits(doc)
       IN IF Len(allCommits) > 0
          THEN LET lastCommit == allCommits[Len(allCommits)]
                   prevPart == TrimOrEmpty(PrevSummaryMatch(lastCommit))
                   contribPart == TrimOrEmpty(ContributionMatch(lastCommit))
               IN IF prevPart # EmptyText /\ contribPart # EmptyText
                  THEN Fold(prevPart, contribPart)
                  ELSE IF contribPart # EmptyText
                  THEN Concat(T(<<"- ">>), contribPart)
                  ELSE IF prevPart # EmptyText THEN prevPart
                  ELSE EmptyText
          ELSE EmptyText

InitialCommit == T(<<"Initial commit">>)

(* index.ts:162-177 *)
CommitEntry(hash, timestamp, message, branchPurpose, previousSummary, contribution) ==
  Cat(<< <<E, <<"---">>, <<"**Commit**:", " ">>>>, T(hash),
         <<E, <<"**Time**: ">>>>, T(timestamp),
         <<E, <<"**Message**: ">>>>, message,
         <<E, E, <<"## Branch Purpose">>, E>>, branchPurpose,
         <<E, E, <<"## Previous Progress Summary">>, E>>,
         IF previousSummary # EmptyText THEN previousSummary ELSE InitialCommit,
         <<E, E, <<"## This Commit's Contribution">>, E>>, contribution,
         <<E, E, E>> >>)

(* A commit that leaves log.md as it was. *)
KeptLog == TextOr(logDoc[getCurrentBranch], EmptyText)

(* index.ts:183: the text written to log.md after the commit *)
ClearedLog == EmptyText

(* A roadmap line of a commit that carries no date. *)
RoadmapCommitLineUndated(timestamp, message) ==
  Cat(<< <<E, <<"- ">>>>, message, <<E, E>> >>)

(* index.ts:189 *)
RoadmapCommitLine(timestamp, message) ==
  Cat(<< <<E, <<"- [">> \o IsoDate(timestamp) \o <<"] ">>>>, message, <<E, E>> >>)

(* A commit that leaves the caller on main when it is done. *)
CommitReturningToMain(args) ==
  LET branch == getCurrentBranch
      hash == ToString36(now)
      branchPurpose == BranchPurposeOf(branch, commitDoc[branch])
      previousSummary == PreviousSummaryOf(commitDoc[branch])
      commitEntry == CommitEntry(hash, IsoString(now), args.message, branchPurpose,
                                 previousSummary, args.contribution)
  IN /\ used.commits < MaxCommits /\ UsedTotal < MaxOps
     /\ used' = [used EXCEPT !.commits = @ + 1]
     /\ branchDirs' = branchDirs \cup {branch}
     /\ commitDoc' = [commitDoc EXCEPT ![branch] = Concat(TextOr(@, EmptyText), commitEntry)]
     /\ logDoc' = [logDoc EXCEPT ![branch] = ClearedLog]
     /\ roadmap' = IF args.update_roadmap
                   THEN Concat(TextOr(roadmap, RoadmapDefault), RoadmapCommitLine(now, args.message))
                   ELSE roadmap
     /\ current' = setCurrentBranch(Main)
     /\ ret' = [op |-> "commit", ok |-> TRUE]
     /\ history' = [history EXCEPT ![branch] =
                      Append(@, [kind |-> "commit", hash |-> hash, message |-> args.message,
                                 branch_purpose |-> branchPurpose,
                                 previous_summary |-> IF previousSummary # EmptyText
                                                      THEN previousSummary ELSE InitialCommit,
                                 contribution |-> args.contribution])]
     /\ UNCHANGED <<metaDoc, now, calls>>

(* commit.execute, index.ts:112-193 *)
Commit(args) ==
  LET branch == getCurrentBranch
      message == args.message
      contribution == args.contribution
      update_roadmap == args.update_roadmap
      hash == ToString36(now)
      timestamp == IsoString(now)
      branchPurpose == BranchPurposeOf(branch, commitDoc[branch])
      previousSummary == PreviousSummaryOf(commitDoc[branch])
      commitEntry == CommitEntry(hash, timestamp, message, branchPurpose,
                                 previousSummary, contribution)
  IN /\ used.commits < MaxCommits /\ UsedTotal < MaxOps
     /\ used' = [used EXCEPT !.commits = @ + 1]
     /\ branchDirs' = branchDirs \cup {branch}
     /\ commitDoc' = [commitDoc EXCEPT ![branch] = Concat(TextOr(@, EmptyText), commitEntry)]
     /\ logDoc' = [logDoc EXCEPT ![branch] = ClearedLog]
     /\ roadmap' = IF update_roadmap
                   THEN Concat(TextOr(roadmap, RoadmapDefault), RoadmapCommitLine(now, message))
                   ELSE roadmap
     /\ ret' = [op |-> "commit", ok |-> TRUE]
     /\ history' = [history EXCEPT ![branch] =
                      Append(@, [kind |-> "commit", hash |-> hash, message |-> message,
                                 branch_purpose |-> branchPurpose,
                                 previous_summary |-> IF previousSummary # EmptyText
                                                      THEN previousSummary ELSE InitialCommit,
                                 contribution |-> contribution])]
     /\ UNCHANGED <<metaDoc, current, now, calls>>

(***************************************************************************)
(* memory_branch                                                           *)
(***************************************************************************)
(* index.ts:210-219 *)
InitCommit(name, purpose, timestamp) ==
  Cat(<< T(<<"# Branch: ">>), name,
         <<E, E, <<"## Branch Purpose">>, E>>, purpose,
         <<E, E, <<"## Previous Progress Summary">>, <<"Branch created at ">> \o timestamp,
           E, <<"---">>, E>> >>)

(* index.ts:226 *)
Metadata(name, timestamp) ==
  Cat(<< T(<<"branch: ">>), name, <<E, <<"created: ">> \o timestamp, E>> >>)

(* branch.execute, index.ts:203-232 *)
Branch(args) ==
  LET name == args.name
      purpose == args.purpose
  IN
  /\ used.branches < MaxBranches /\ UsedTotal < MaxOps
  /\ used' = [used EXCEPT !.branches = @ + 1]
  /\ branchDirs' = branchDirs \cup {name}
  /\ commitDoc' = [commitDoc EXCEPT ![name] = InitCommit(name, purpose, IsoString(now))]
  /\ logDoc' = [logDoc EXCEPT ![name] = EmptyText]
  /\ metaDoc' = [metaDoc EXCEPT ![name] = Metadata(name, IsoString(now))]
  /\ current' = setCurrentBranch(name)
  /\ ret' = [op |-> "branch", ok |-> TRUE]
  /\ history' = [history EXCEPT ![name] = <<[kind |-> "created", branch_purpose |-> purpose]>>]
  /\ UNCHANGED <<roadmap, now, calls>>

(***************************************************************************)
(* memory_switch                                                           *)
(***************************************************************************)
(* A switch that writes the pointer before it reports the missing branch. *)
SwitchUnchecked(name) ==
  /\ current' = setCurrentBranch(name)
  /\ ret' = [op |-> "switch", ok |-> exists(name)]
  /\ UNCHANGED <<commitDoc, logDoc, metaDoc, roadmap, branchDirs, now, used, history, calls>>

(* switchBranch.execute, index.ts:555-566 *)
Switch(name) ==
  /\ IF ~exists(name)
     THEN /\ ret' = [op |-> "switch", ok |-> FALSE]
          /\ UNCHANGED current
     ELSE /\ current' = setCurrentBranch(name)
          /\ ret' = [op |-> "switch", ok |-> TRUE]
  /\ UNCHANGED <<commitDoc, logDoc, metaDoc, roadmap, branchDirs, now, used, history, calls>>

(***************************************************************************)
(* memory_merge                                                            *)
(***************************************************************************)
(* index.ts:259-260 *)
TargetPurposeOf(targetCommits) ==
  IF TrimOrEmpty(PurposeMatch(targetCommits)) # EmptyText
  THEN TrimOrEmpty(PurposeMatch(targetCommits))
  ELSE T(<<"No purpose defined">>)

(* index.ts:263-270 *)
TargetProgressSummaryOf(targetCommits) ==
  LET allCommits == AllCommits(targetCommits)
  IN IF Len(allCommits) > 0
     THEN LET lastCommit == allCommits[Len(allCommits)]
          IN Cat(<<TrimOrEmpty(PrevSummaryMatch(lastCommit)), <<E, <<"- ">>>>,
                   TrimOrEmpty(ContributionMatch(lastCommit))>>)
     ELSE EmptyText

(* A merge block whose first line names the destination before the source. *)
MergeEntryReversed(targetBranch, currentBranch, timestamp, summary, targetPurpose, targetProgressSummary, targetCommits) ==
  Cat(<< <<E, <<"---">>, <<"**MERGE**: ">>>>, currentBranch, T(<<" -> ">>), targetBranch,
         <<E, <<"**Time**: ">> \o timestamp, E, <<"## Merge Summary">>, E>>, summary,
         <<E, E, <<"## Merged Branch Context (Auto-Retrieved)">>, <<"**Purpose**: ">>>>,
         targetPurpose,
         <<E, <<"**Progress**: ">>>>, targetProgressSummary,
         <<E, E, <<"## Merged Commits from '">>>>, targetBranch, <<<<"'">>, E>>,
         targetCommits,
         <<E, E, <<"---">>, E>> >>)

(* index.ts:278-294; the arrow of the MERGE line is written " -> " here *)
MergeEntry(targetBranch, currentBranch, timestamp, summary, targetPurpose, targetProgressSummary, targetCommits) ==
  Cat(<< <<E, <<"---">>, <<"**MERGE**: ">>>>, targetBranch, T(<<" -> ">>), currentBranch,
         <<E, <<"**Time**: ">> \o timestamp, E, <<"## Merge Summary">>, E>>, summary,
         <<E, E, <<"## Merged Branch Context (Auto-Retrieved)">>, <<"**Purpose**: ">>>>,
         targetPurpose,
         <<E, <<"**Progress**: ">>>>, targetProgressSummary,
         <<E, E, <<"## Merged Commits from '">>>>, targetBranch, <<<<"'">>, E>>,
         targetCommits,
         <<E, E, <<"---">>, E>> >>)

(* A merged log that starts from the origin marker, without the destination's
   earlier entries. *)
MergedLogDropExisting(existingLog, targetBranch, targetLog) ==
  Cat(<< <<E, E, <<"== Merged from Branch: ">>>>, targetBranch,
         <<<<" ==">>, E>>, targetLog, <<E, E>> >>)

(* index.ts:301 *)
MergedLog(existingLog, targetBranch, targetLog) ==
  Cat(<< existingLog, <<E, E, <<"== Merged from Branch: ">>>>, targetBranch,
         <<<<" ==">>, E>>, targetLog, <<E, E>> >>)

(* A merge that adds nothing to the roadmap. *)
RoadmapMergeLineEmpty(targetBranch, currentBranch, summary) == EmptyText

(* index.ts:307 *)
RoadmapMergeLine(targetBranch, currentBranch, summary) ==
  Cat(<< <<E, <<"- [MERGE] ">>>>, targetBranch, T(<<" -> ">>), currentBranch,
         T(<<": ">>), summary, <<E, E>> >>)

(* merge.execute, index.ts:242-310 *)
Merge(targetBranch, summary) ==
  LET currentBranch == getCurrentBranch
      targetCommits == commitDoc[targetBranch]
      targetLog == TextOr(logDoc[targetBranch], EmptyText)
      targetPurpose == TargetPurposeOf(targetCommits)
      targetProgressSummary == TargetProgressSummaryOf(targetCommits)
      mergeEntry == MergeEntry(targetBranch, currentBranch, IsoString(now), summary,
                               targetPurpose, targetProgressSummary, targetCommits)
  IN /\ used.merges < MaxMerges /\ UsedTotal < MaxOps
     /\ used' = [used EXCEPT !.merges = @ + 1]
     /\ IF ~exists(targetBranch)
        THEN /\ ret' = [op |-> "merge", ok |-> FALSE]
             /\ UNCHANGED <<commitDoc, logDoc, roadmap, branchDirs, history>>
        ELSE /\ branchDirs' = branchDirs \cup {currentBranch}
             /\ commitDoc' = [commitDoc EXCEPT ![currentBranch] =
                                Concat(TextOr(@, EmptyText), mergeEntry)]
             /\ logDoc' = [logDoc EXCEPT ![currentBranch] =
                             MergedLog(TextOr(@, EmptyText), targetBranch, targetLog)]
             /\ roadmap' = Concat(TextOr(roadmap, RoadmapDefault),
                                  RoadmapMergeLine(targetBranch, currentBranch, summary))
             /\ ret' = [op |-> "merge", ok |-> TRUE]
             /\ history' = [history EXCEPT ![currentBranch] =
                              Append(@, [kind |-> "merge", source |-> targetBranch,
                                         summary |-> summary, purpose |-> targetPurpose,
                                         progress |-> targetProgressSummary])]
     /\ UNCHANGED <<metaDoc, current, now, calls>>

(***************************************************************************)
(* memory_log                                                              *)
(***************************************************************************)
(* A log entry that writes the structured fields after the freeform text. *)
LogEntryWithFields(timestamp, args) ==
  Cat(<< <<E, <<"[">> \o timestamp \o <<"]">>, E>>,
         IF Truthy(args.entry) THEN args.entry ELSE EmptyText,
         IF Truthy(args.observation)
         THEN Cat(<<T(<<"Observation: ">>), args.observation, <<E, E>>>>)
         ELSE EmptyText,
         IF Truthy(args.thought)
         THEN Cat(<<T(<<"Thought: ">>), args.thought, <<E, E>>>>)
         ELSE EmptyText,
         IF Truthy(args.action)
         THEN Cat(<<T(<<"Action: ">>), args.action, <<E, E>>>>)
         ELSE EmptyText >>)

(* index.ts:449-457 *)
LogEntry(timestamp, args) ==
  Concat(<<E, <<"[">> \o timestamp \o <<"]">>, E>>,
         IF Truthy(args.entry) THEN args.entry
         ELSE Cat(<< IF Truthy(args.observation)
                     THEN Cat(<<T(<<"Observation: ">>), args.observation, <<E, E>>>>)
                     ELSE EmptyText,
                     IF Truthy(args.thought)
                     THEN Cat(<<T(<<"Thought: ">>), args.thought, <<E, E>>>>)
                     ELSE EmptyText,
                     IF Truthy(args.action)
                     THEN Cat(<<T(<<"Action: ">>), args.action, <<E, E>>>>)
                     ELSE EmptyText >>))

(* log.execute, index.ts:442-463 *)
Log(args) ==
  LET branch == getCurrentBranch
  IN /\ used.logs < MaxLogs /\ UsedTotal < MaxOps
     /\ used' = [used EXCEPT !.logs = @ + 1]
     /\ branchDirs' = branchDirs \cup {branch}
     /\ logDoc' = [logDoc EXCEPT ![branch] =
                     Concat(TextOr(@, EmptyText), LogEntry(IsoString(now), args))]
     /\ ret' = [op |-> "log", ok |-> TRUE]
     /\ UNCHANGED <<commitDoc, metaDoc, roadmap, current, now, history, calls>>

(***************************************************************************)
(* memory_remember                                                         *)
(***************************************************************************)
RECURSIVE Join(_, _)
Join(ts, sep) == IF Len(ts) = 0 THEN EmptyText
                 ELSE IF Len(ts) = 1 THEN ts[1]
                 ELSE Cat(<<ts[1], sep, Join(Tail(ts), sep)>>)

(* A mirrored record that leaves the content out. *)
MemoryLogEntryNoContent(args) ==
  Cat(<< <<E, <<"**Memory Added**: ", args.type, " / ">>>>, args.scope,
         <<E, E>>,
         IF Truthy(args.issue) THEN Concat(T(<<"Issue: ">>), args.issue) ELSE EmptyText,
         <<E, E>> >>)

(* index.ts:483-488 *)
MemoryLogEntry(args) ==
  Cat(<< <<E, <<"**Memory Added**: ", args.type, " / ">>>>, args.scope,
         <<E, <<"Content: ">>>>, args.content,
         <<E, E>>,
         IF Truthy(args.issue) THEN Concat(T(<<"Issue: ">>), args.issue) ELSE EmptyText,
         <<E, E>>,
         IF Len(args.tags) > 0 THEN Concat(T(<<"Tags: ">>), Join(args.tags, T(<<", ">>)))
         ELSE EmptyText,
         <<E, E>> >>)

(* remember.execute, index.ts:478-496 *)
Remember(args) ==
  LET branch == getCurrentBranch
  IN /\ used.logs < MaxLogs /\ UsedTotal < MaxOps
     /\ used' = [used EXCEPT !.logs = @ + 1]
     /\ branchDirs' = branchDirs \cup {branch}
     /\ logDoc' = [logDoc EXCEPT ![branch] =
                     Concat(TextOr(@, EmptyText), MemoryLogEntry(args))]
     /\ ret' = [op |-> "remember", ok |-> TRUE]
     /\ UNCHANGED <<commitDoc, metaDoc, roadmap, current, now, history, calls>>

(***************************************************************************)
(* memory_context                                                          *)
(***************************************************************************)
(* An optional argument is the empty set when omitted and {v} when given.  *)
Given(opt) == CHOOSE v \in opt : TRUE

(* index.ts:406: the number of log lines shown when none is asked for *)
DefaultLines == 20

(* index.ts:358: slice(-10) *)
LastCommits == 10

(* `args.lines || 20`, `args.offset || 0`, `args.level || "roadmap"` *)
OrDefault(opt, default) ==
  IF opt = {} THEN default
  ELSE IF Given(opt) = 0 THEN default
  ELSE Given(opt)

(* Array.prototype.slice(start, end) *)
JsSlice(seq, start, end) ==
  LET n == Len(seq)
      from == IF start < 0 THEN Max({n + start, 0}) ELSE Min({start, n})
      to == IF end < 0 THEN Max({n + end, 0}) ELSE Min({end, n})
  IN IF from >= to THEN <<>> ELSE SubSeq(seq, from + 1, to)

(* \w *)
WordAtoms ==
  {Digits36[i] : i \in 1..Len(Digits36)} \cup {"A", "B", "C", "main", "exp"}

(* The first position of a line where `**Commit**: (\w+)` matches; 0 when
   there is none. *)
CommitAt(l) ==
  LET J == {j \in 1..(Len(l) - 2) :
              l[j] = "**Commit**:" /\ l[j + 1] = " " /\ l[j + 2] \in WordAtoms}
  IN IF J = {} THEN 0 ELSE Min(J)

(* (\w+): the longest run of word characters from position j on. *)
RECURSIVE WordRun(_, _)
WordRun(l, j) ==
  IF j > Len(l) THEN <<>>
  ELSE IF l[j] \in WordAtoms THEN <<l[j]>> \o WordRun(l, j + 1)
  ELSE <<>>

(* `\*\*Message\*\*: ([^\n]+)`: a line that holds the message label followed
   by at least one character. *)
IsMessageLine(l) == Len(l) >= 2 /\ l[1] = "**Message**: "

(* [...commits.matchAll(/\*\*Commit\*\*: (\w+)[\s\S]*?\*\*Message\*\*: ([^\n]+)/g)]
   from line p on *)
RECURSIVE CommitMatchesFrom(_, _)
CommitMatchesFrom(c, p) ==
  LET I == {i \in p..Len(c) : CommitAt(c[i]) > 0}
  IN IF I = {} THEN <<>>
     ELSE LET i == Min(I)
              J == {j \in (i + 1)..Len(c) : IsMessageLine(c[j])}
          IN IF J = {} THEN <<>>
             ELSE <<[hash |-> WordRun(c[i], CommitAt(c[i]) + 2),
                     message |-> Tail(c[Min(J)])]>>
                    \o CommitMatchesFrom(c, Min(J) + 1)

CommitMatches(c) == CommitMatchesFrom(c, 1)

(* commits.split(/(?=---\n\*\*Commit\*\*:)/): the piece that begins at split
   point p (p = 0: at the start of the text), the "---" included. *)
BlockAt(c, p) ==
  LET later == {q \in SplitPoints(c) : q > p}
      from == IF p = 0 THEN 1 ELSE p
      head == IF p = 0 THEN c[1] ELSE <<"---">>
  IN IF later = {}
     THEN IF from = Len(c) THEN <<head>>
          ELSE <<head>> \o SubSeq(c, from + 1, Len(c))
     ELSE LET q == Min(later)
              cut == SubSeq(c[q], 1, Len(c[q]) - 1)
          IN IF q = from THEN <<SubSeq(head, 1, Len(head) - 1)>>
             ELSE <<head>> \o SubSeq(c, from + 1, q - 1) \o <<cut>>

(* commitBlocks, index.ts:386 *)
CommitBlocks(c) ==
  LET starts == {p \in {0} \cup SplitPoints(c) : BlockAt(c, p) # EmptyText}
  IN [k \in 1..Cardinality(starts) |->
        BlockAt(c, CHOOSE p \in starts : Cardinality({q \in starts : q < p}) = k - 1)]

(* block.includes(`**Commit**: ${hash}`), index.ts:388 *)
BlockIncludes(block, hash) ==
  \E i \in 1..Len(block) :
    \E j \in 1..(Len(block[i]) - 1) :
      /\ block[i][j] = "**Commit**:" /\ block[i][j + 1] = " "
      /\ j + 1 + Len(hash) <= Len(block[i])
      /\ SubSeq(block[i], j + 2, j + 1 + Len(hash)) = hash

(* index.ts:331-340 *)
ContextRoadmap ==
  [ok |-> TRUE, level |-> "roadmap",
   roadmap |-> TextOr(roadmap, <<<<"# Project Roadmap">>, E, <<"No roadmap yet.">>>>),
   current |-> getCurrentBranch,
   all |-> IF branchDirs = {} THEN {Main} ELSE branchDirs]

(* index.ts:342-361 *)
ContextBranch(branch) ==
  IF ~exists(branch) THEN [ok |-> FALSE, error |-> "branch not found", branch |-> branch]
  ELSE LET commits == commitDoc[branch]
           purpose == IF TrimOrEmpty(PurposeMatch(commits)) # EmptyText
                      THEN TrimOrEmpty(PurposeMatch(commits))
                      ELSE T(<<"No purpose defined">>)
           commitMatches == CommitMatches(commits)
       IN [ok |-> TRUE, level |-> "branch", branch |-> branch, purpose |-> purpose,
           lastTen |-> JsSlice(commitMatches, 0 - LastCommits, Len(commitMatches))]

(* index.ts:363-371 *)
ContextCommits(branch) ==
  IF ~exists(branch) THEN [ok |-> FALSE, error |-> "branch not found", branch |-> branch]
  ELSE [ok |-> TRUE, level |-> "commits", text |-> commitDoc[branch]]

(* index.ts:373-395 *)
ContextCommit(branch, commit_hash) ==
  IF ~exists(branch) THEN [ok |-> FALSE, error |-> "branch not found", branch |-> branch]
  ELSE IF commit_hash = <<>> THEN [ok |-> FALSE, error |-> "commit_hash required"]
  ELSE LET commitBlocks == CommitBlocks(commitDoc[branch])
           found == {k \in 1..Len(commitBlocks) : BlockIncludes(commitBlocks[k], commit_hash)}
       IN IF found = {}
          THEN [ok |-> FALSE, error |-> "commit not found", branch |-> branch]
          ELSE [ok |-> TRUE, level |-> "commit", text |-> Trim(commitBlocks[Min(found)])]

(* index.ts:397-417 *)
ContextLog(branch, lines, offset) ==
  IF logDoc[branch] = Absent THEN [ok |-> FALSE, error |-> "no logs", branch |-> branch]
  ELSE LET logLines == logDoc[branch]
           numLines == OrDefault(lines, DefaultLines)
           off == OrDefault(offset, 0)
           start == Max({0, Len(logLines) - numLines - off})
           end == Len(logLines) - off
       IN [ok |-> TRUE, level |-> "log", branch |-> branch,
           start |-> start, end |-> end, total |-> Len(logLines),
           shownLines |-> JsSlice(logLines, start, end),
           hasMore |-> start > 0, hasLess |-> off > 0,
           up |-> off + numLines, down |-> Max({0, off - numLines})]

(* index.ts:419-427 *)
ContextMetadata(branch) ==
  IF metaDoc[branch] = Absent THEN [ok |-> FALSE, error |-> "no metadata", branch |-> branch]
  ELSE [ok |-> TRUE, level |-> "metadata", text |-> metaDoc[branch]]

(* The text context.execute returns, index.ts:326-430 *)
ContextResult(args) ==
  LET level == IF args.level = {} THEN "roadmap" ELSE Given(args.level)
      branch == IF Truthy(args.branch_name) THEN args.branch_name ELSE getCurrentBranch
  IN IF level = "roadmap" THEN ContextRoadmap
     ELSE IF level = "branch" THEN ContextBranch(branch)
     ELSE IF level = "commits" THEN ContextCommits(branch)
     ELSE IF level = "commit" THEN ContextCommit(branch, args.commit_hash)
     ELSE IF level = "log" THEN ContextLog(branch, args.lines, args.offset)
     ELSE IF level = "metadata" THEN ContextMetadata(branch)
     ELSE [ok |-> FALSE, error |-> "invalid level"]

(* A context call that, like memory_log, creates the trace log of the branch
   it reads when there is none. *)
ContextHealing(args) ==
  LET branch == IF Truthy(args.branch_name) THEN args.branch_name ELSE getCurrentBranch
  IN /\ used.reads < MaxReads /\ UsedTotal < MaxOps
     /\ used' = [used EXCEPT !.reads = @ + 1]
     /\ logDoc' = [logDoc EXCEPT ![branch] = TextOr(@, EmptyText)]
     /\ ret' = [op |-> "context", ok |-> ContextResult(args).ok, args |-> args,
                out |-> ContextResult(args)]
     /\ UNCHANGED <<commitDoc, metaDoc, roadmap, current, branchDirs, now, history, calls>>

(* context.execute, index.ts:326-431 *)
Context(args) ==
  /\ used.reads < MaxReads /\ UsedTotal < MaxOps
  /\ used' = [used EXCEPT !.reads = @ + 1]
  /\ ret' = [op |-> "context", ok |-> ContextResult(args).ok, args |-> args,
             out |-> ContextResult(args)]
  /\ UNCHANGED <<commitDoc, logDoc, metaDoc, roadmap, current, branchDirs, now, history, calls>>

(***************************************************************************)
(* memory_recall                                                           *)
(***************************************************************************)
(* index.ts:535: slice(-20) *)
RecallLines == 20

(* String.prototype.toLowerCase on one word *)
ToLowerCase(w) ==
  CASE w = "JWT" -> "jwt"
    [] w = "A" -> "a"
    [] w = "B" -> "b"
    [] w = "C" -> "c"
    [] OTHER -> w

(* `line.includes(word)`: the words of the model are the pieces of a line,
   and none is part of another. *)
Includes(line, word) == \E i \in 1..Len(line) : line[i] = word

(* `line.toLowerCase().includes(query.toLowerCase())` *)
IncludesAnyCase(line, query) ==
  \E i \in 1..Len(line) : ToLowerCase(line[i]) = ToLowerCase(query)

(* index.ts:519-536: the log lines recall.execute shows *)
RecallLogLines(log, args) ==
  LET NonEmpty(l) == l # E
      ByQuery(l) == args.query = {} \/ IncludesAnyCase(l, Given(args.query))
      ByScope(l) == args.scope = {} \/ Includes(l, Given(args.scope))
      ByType(l) == args.type = {} \/ Includes(l, Given(args.type))
      filtered == SelectSeq(SelectSeq(SelectSeq(SelectSeq(log, NonEmpty), ByQuery), ByScope),
                            ByType)
  IN [matches |-> Len(filtered), shown |-> JsSlice(filtered, 0 - RecallLines, Len(filtered))]

(* index.ts:539-544: whether recall.execute shows the end of the history *)
RecallCommitHit(commits, args) ==
  /\ args.query # {}
  /\ \E i \in 1..Len(commits) : IncludesAnyCase(commits[i], Given(args.query))

(* The text recall.execute returns, index.ts:510-546.  `commits.slice(-1000)`
   is kept as the whole history, which holds every line the last 1000
   characters hold. *)
RecallResult(args) ==
  LET searchBranch == IF Truthy(args.branch_name) THEN args.branch_name ELSE getCurrentBranch
      log == IF logDoc[searchBranch] # Absent
             THEN RecallLogLines(logDoc[searchBranch], args)
             ELSE [matches |-> 0, shown |-> <<>>]
      hit == commitDoc[searchBranch] # Absent /\ RecallCommitHit(commitDoc[searchBranch], args)
  IN [ok |-> log.matches > 0 \/ hit,
      matches |-> log.matches,
      logResults |-> log.shown,
      commitResults |-> IF hit THEN commitDoc[searchBranch] ELSE <<>>]

(* recall.execute, index.ts:510-547 *)
Recall(args) ==
  /\ used.reads < MaxReads /\ UsedTotal < MaxOps
  /\ used' = [used EXCEPT !.reads = @ + 1]
  /\ ret' = [op |-> "recall", ok |-> RecallResult(args).ok, args |-> args,
             out |-> RecallResult(args)]
  /\ UNCHANGED <<commitDoc, logDoc, metaDoc, roadmap, current, branchDirs, now, history, calls>>

(***************************************************************************)
(* Plugin initialization                                                   *)
(***************************************************************************)
(* index.ts:600 *)
MainHeader(timestamp) ==
  <<<<"# Branch: ", "main">>, E, <<"## Branch Purpose">>, <<"Main development branch">>, E,
    <<"## Previous Progress Summary">>, <<"Initialized at ">> \o timestamp, E, <<"---">>, E>>

(* index.ts:612 *)
RoadmapHeader(timestamp) ==
  <<<<"# Project Roadmap">>, E, <<"Initialized at ">> \o timestamp, E, <<"## Goals">>, E,
    <<"## Milestones">>, E, E>>

(* An initialization that writes its three documents whether or not they
   exist. *)
MemoryPluginReset ==
  /\ branchDirs' = branchDirs \cup {Main}
  /\ commitDoc' = [commitDoc EXCEPT ![Main] = MainHeader(IsoString(now))]
  /\ logDoc' = [logDoc EXCEPT ![Main] = EmptyText]
  /\ roadmap' = RoadmapHeader(IsoString(now))
  /\ ret' = [op |-> "init", ok |-> TRUE]
  /\ history' = [history EXCEPT ![Main] =
                   <<[kind |-> "created", branch_purpose |-> T(<<"Main development branch">>)]>>]
  /\ UNCHANGED <<metaDoc, current, now, used, calls>>

(* MemoryPlugin, index.ts:589-613 *)
MemoryPlugin ==
  /\ branchDirs' = branchDirs \cup {Main}
  /\ commitDoc' = [commitDoc EXCEPT ![Main] = TextOr(@, MainHeader(IsoString(now)))]
  /\ logDoc' = [logDoc EXCEPT ![Main] = TextOr(@, EmptyText)]
  /\ roadmap' = TextOr(roadmap, RoadmapHeader(IsoString(now)))
  /\ ret' = [op |-> "init", ok |-> TRUE]
  /\ history' = [history EXCEPT ![Main] =
                   IF commitDoc[Main] = Absent
                   THEN <<[kind |-> "created", branch_purpose |-> T(<<"Main development branch">>)]>>
                   ELSE @]
  /\ UNCHANGED <<metaDoc, current, now, used, calls>>

(* The clock advances by a millisecond between two operations. *)
Tick ==
  /\ now < StartTime + MaxTicks /\ UsedTotal < MaxOps
  /\ now' = now + 1
  /\ UNCHANGED <<commitDoc, logDoc, metaDoc, roadmap, current, branchDirs, used, ret, history, calls>>

(* The callers that may have a tool call in flight at the same time: the
   host awaits nothing between two tool invocations. *)
Callers == {1, 2}

(* A caller with no call in flight. *)
Idle ==
  [op |-> "idle", pc |-> "idle", args |-> <<>>, branch |-> Absent, content |-> Absent,
   existing |-> Absent, mainContent |-> Absent, stamp |-> 0, active |-> Absent, wrote |-> {},
   halted |-> FALSE]

NoCalls == [p \in Callers |-> Idle]

(***************************************************************************)
(* Specification.  Init is the storage after MemoryPlugin has run once on  *)
(* an empty project directory.                                             *)
(***************************************************************************)
Init ==
  /\ now = StartTime
  /\ commitDoc = [b \in Names |-> IF b = Main THEN MainHeader(IsoString(StartTime)) ELSE Absent]
  /\ logDoc = [b \in Names |-> IF b = Main THEN EmptyText ELSE Absent]
  /\ metaDoc = [b \in Names |-> Absent]
  /\ roadmap = RoadmapHeader(IsoString(StartTime))
  /\ current = Absent
  /\ branchDirs = {Main}
  /\ used = [commits |-> 0, branches |-> 0, merges |-> 0, logs |-> 0, reads |-> 0]
  /\ ret = [op |-> "init", ok |-> TRUE]
  /\ history = [b \in Names |->
                 IF b = Main
                 THEN <<[kind |-> "created", branch_purpose |-> T(<<"Main development branch">>)]>>
                 ELSE <<>>]
  /\ calls = NoCalls

DoCommit == \E a \in CommitArgs : Commit(a)
DoBranch == \E a \in BranchArgs : Branch(a)
DoSwitch == \E n \in Names : Switch(n)
DoMerge == \E n \in MergeTargets, s \in Summaries : Merge(n, s)
DoLog == \E a \in LogArgs : Log(a)
DoRemember == \E a \in RememberArgs : Remember(a)
DoContext == \E a \in ContextArgs : Context(a)
DoRecall == \E a \in RecallArgs : Recall(a)

Next ==
  \/ DoCommit
  \/ DoBranch
  \/ DoSwitch
  \/ DoMerge
  \/ DoLog
  \/ DoRemember
  \/ DoContext
  \/ DoRecall
  \/ MemoryPlugin
  \/ Tick

Spec == Init /\ [][Next]_vars

(***************************************************************************)
(* Helpers of the properties.                                              *)
(***************************************************************************)
(* s is a prefix of t, as strings. *)
IsPrefix(s, t) ==
  /\ s # Absent /\ t # Absent
  /\ Len(s) <= Len(t)
  /\ SubSeq(s, 1, Len(s) - 1) = SubSeq(t, 1, Len(s) - 1)
  /\ Len(s[Len(s)]) <= Len(t[Len(s)])
  /\ s[Len(s)] = SubSeq(t[Len(s)], 1, Len(s[Len(s)]))
  /\ (Len(s) < Len(t) => s[Len(s)] = t[Len(s)])

(***************************************************************************)
(* C1: after every memory_commit the trace log of the branch that was      *)
(* active when the commit started is empty, whatever it held before.       *)
(***************************************************************************)
C1_CommitClearsLog ==
  [][\A a \in CommitArgs : Commit(a) => logDoc'[getCurrentBranch] = EmptyText]_vars

(* A commit has just run on main after a log entry or a memory was written
   there. *)
C1_Witness ==
  /\ ret.op = "commit"
  /\ used.logs = 1 /\ used.branches = 0 /\ used.merges = 0
  /\ logDoc[Main] = EmptyText

(***************************************************************************)
(* C2: a merge whose source has a commit history leaves the source's       *)
(* commit-history and trace-log documents as they were, also when the      *)
(* source is the active branch.                                            *)
(***************************************************************************)
C2_MergeKeepsSource ==
  [][\A n \in MergeTargets, s \in Summaries :
       (Merge(n, s) /\ commitDoc[n] # Absent)
         => (commitDoc'[n] = commitDoc[n] /\ logDoc'[n] = logDoc[n])]_vars

(***************************************************************************)
(* The commit history of a branch as records (the variable history).       *)
(***************************************************************************)
IsCommit(b, i) == history[b][i].kind = "commit"
NoMerge(b) == \A i \in 1..Len(history[b]) : history[b][i].kind # "merge"
CommitsBefore(b, i) == {j \in 1..(i - 1) : IsCommit(b, j)}

(* What the commit that follows the regular commit c records as its previous
   progress: c's summary, then "\n- " and c's contribution with the
   surrounding whitespace removed, when that is not blank. *)
FoldOf(c) ==
  IF Trim(c.contribution) # EmptyText
  THEN Cat(<<c.previous_summary, <<E, <<"- ">>>>, Trim(c.contribution)>>)
  ELSE c.previous_summary

(***************************************************************************)
(* C3 as stated: on a branch with regular commits only, the first commit   *)
(* records "Initial commit", and after a commit with a non-empty           *)
(* contribution the next one records that commit's summary, a newline,     *)
(* "- " and that commit's contribution.                                    *)
(***************************************************************************)
C3_FoldAsStated ==
  \A b \in Names : NoMerge(b) =>
    \A i \in 1..Len(history[b]) : IsCommit(b, i) =>
      /\ CommitsBefore(b, i) = {} => history[b][i].previous_summary = InitialCommit
      /\ (i > 1 /\ IsCommit(b, i - 1) /\ history[b][i - 1].contribution # EmptyText)
           => history[b][i].previous_summary =
                Cat(<<history[b][i - 1].previous_summary, <<E, <<"- ">>>>,
                      history[b][i - 1].contribution>>)

(***************************************************************************)
(* C3 amended: the same with the contribution stripped of its surrounding  *)
(* whitespace, for contributions that are not blank; commit(A, x) followed *)
(* by a second commit on main records "Initial commit\n- x".               *)
(***************************************************************************)
C3_FoldTrimmed ==
  /\ \A b \in Names : NoMerge(b) =>
       \A i \in 1..Len(history[b]) : IsCommit(b, i) =>
         /\ CommitsBefore(b, i) = {} => history[b][i].previous_summary = InitialCommit
         /\ (i > 1 /\ IsCommit(b, i - 1) /\ Trim(history[b][i - 1].contribution) # EmptyText)
              => history[b][i].previous_summary =
                   Cat(<<history[b][i - 1].previous_summary, <<E, <<"- ">>>>,
                         Trim(history[b][i - 1].contribution)>>)
  /\ (/\ Len(history[Main]) = 3
      /\ history[Main][1].kind = "created"
      /\ IsCommit(Main, 2) /\ IsCommit(Main, 3)
      /\ history[Main][2].contribution = T(<<"x">>))
       => history[Main][3].previous_summary = <<<<"Initial commit">>, <<"- ", "x">>>>

(* Two commits in a row on a branch without merges, the first with a
   contribution that has surrounding whitespace. *)
C3_Witness ==
  \E b \in Names :
    /\ NoMerge(b)
    /\ \E i \in 2..Len(history[b]) :
         /\ IsCommit(b, i) /\ IsCommit(b, i - 1)
         /\ history[b][i - 1].contribution = T(<<" ", "y">>)

(***************************************************************************)
(* C4 as stated: after N >= 1 commits with contributions c1..cN on one     *)
(* branch, commit N+1 records c1, "- " c2, ..., "- " cN joined by          *)
(* newlines.                                                               *)
(***************************************************************************)
RECURSIVE JoinStated(_, _, _)
JoinStated(b, js, first) ==
  IF js = {} THEN EmptyText
  ELSE LET j == Min(js)
           item == IF first THEN history[b][j].contribution
                   ELSE Concat(T(<<"- ">>), history[b][j].contribution)
       IN IF js = {j} THEN item
          ELSE Cat(<<item, <<E, E>>, JoinStated(b, js \ {j}, FALSE)>>)

C4_FoldAsStated ==
  \A b \in Names : NoMerge(b) =>
    \A i \in 1..Len(history[b]) : (IsCommit(b, i) /\ CommitsBefore(b, i) # {}) =>
      history[b][i].previous_summary = JoinStated(b, CommitsBefore(b, i), TRUE)

(***************************************************************************)
(* C4 amended: commit N+1 records "Initial commit" followed, for each of   *)
(* c1..cN that is not blank, by a line "- " and that contribution stripped *)
(* of its surrounding whitespace.                                          *)
(***************************************************************************)
RECURSIVE FoldAll(_, _, _)
FoldAll(acc, b, js) ==
  IF js = {} THEN acc
  ELSE LET j == Min(js)
           c == Trim(history[b][j].contribution)
       IN FoldAll(IF c # EmptyText THEN Cat(<<acc, <<E, <<"- ">>>>, c>>) ELSE acc,
                  b, js \ {j})

C4_FoldFromInitial ==
  \A b \in Names : NoMerge(b) =>
    \A i \in 1..Len(history[b]) : (IsCommit(b, i) /\ CommitsBefore(b, i) # {}) =>
      history[b][i].previous_summary = FoldAll(InitialCommit, b, CommitsBefore(b, i))

(* A third commit on a branch without merges, after two commits with
   contributions that are not blank. *)
C4_Witness ==
  \E b \in Names :
    /\ NoMerge(b)
    /\ \E i \in 1..Len(history[b]) :
         /\ IsCommit(b, i)
         /\ Cardinality({j \in CommitsBefore(b, i) :
                           Trim(history[b][j].contribution) # EmptyText}) >= 2

(***************************************************************************)
(* C5: a commit that follows a merge into its branch records the fold of   *)
(* that branch's own most recent regular commit, or "Initial commit" when  *)
(* the branch has none; never text of a commit made on the source.         *)
(***************************************************************************)
C5_MergeBlockNotFolded ==
  \A b \in Names :
    \A i \in 2..Len(history[b]) : (IsCommit(b, i) /\ history[b][i - 1].kind = "merge") =>
      history[b][i].previous_summary =
        IF CommitsBefore(b, i) = {} THEN InitialCommit
        ELSE FoldOf(history[b][Max(CommitsBefore(b, i))])

(***************************************************************************)
(* C6: the commit history of a branch is append-only: over every step the  *)
(* commit-history document of a branch that has one is a prefix of the     *)
(* document after the step.                                                *)
(***************************************************************************)
C6_HistoryAppendOnly ==
  [][\A b \in Names : commitDoc[b] # Absent => IsPrefix(commitDoc[b], commitDoc'[b])]_vars

(***************************************************************************)
(* C7: after memory_branch(b, purpose), for a new name b as for an         *)
(* existing one, b has a commit-history document and the active branch,    *)
(* as every operation reads it from the pointer file, is b.                *)
(***************************************************************************)
C7_BranchCreatesAndPoints ==
  [][\A a \in BranchArgs :
       Branch(a) => (commitDoc'[a.name] # Absent /\ getCurrentBranch' = a.name)]_vars

(***************************************************************************)
(* C8: in every reachable state the branch the active-branch pointer names *)
(* (main when the pointer file is absent) has a commit-history document.   *)
(***************************************************************************)
C8_ActiveBranchExists == commitDoc[getCurrentBranch] # Absent

(***************************************************************************)
(* C9: memory_switch(name) returns a failure and leaves the active branch  *)
(* as it was when name has no commit-history document, and otherwise makes *)
(* name the active branch, as every operation reads it from the pointer    *)
(* file; either way no commit-history, trace-log, metadata or roadmap      *)
(* document changes.                                                       *)
(***************************************************************************)
C9_Switch ==
  [][\A n \in Names :
       Switch(n) =>
         /\ commitDoc[n] = Absent => (~ret'.ok /\ getCurrentBranch' = getCurrentBranch)
         /\ commitDoc[n] # Absent => (ret'.ok /\ getCurrentBranch' = n)
         /\ commitDoc' = commitDoc /\ logDoc' = logDoc
         /\ metaDoc' = metaDoc /\ roadmap' = roadmap]_vars

(***************************************************************************)
(* C10: memory_merge(source, summary) returns the not-found failure        *)
(* exactly when source has no commit-history document, and then changes no *)
(* commit history, trace log, roadmap or pointer.                          *)
(***************************************************************************)
C10_MergeNotFound ==
  [][\A n \in MergeTargets, s \in Summaries :
       Merge(n, s) =>
         /\ ~ret'.ok <=> commitDoc[n] = Absent
         /\ commitDoc[n] = Absent =>
              (/\ commitDoc' = commitDoc /\ logDoc' = logDoc /\ metaDoc' = metaDoc
               /\ roadmap' = roadmap /\ current' = current)]_vars

(* A merge from a missing source has just failed on a destination that has
   a commit and a non-empty trace log. *)
C10_Witness ==
  /\ ret = [op |-> "merge", ok |-> FALSE]
  /\ used.commits > 0
  /\ logDoc[getCurrentBranch] # Absent /\ logDoc[getCurrentBranch] # EmptyText

(***************************************************************************)
(* Helpers of the merge and roadmap properties.                            *)
(***************************************************************************)
(* The lines of a document that open a merge block: a MERGE line that      *)
(* follows a "---" line.                                                   *)
MergeHeaders(doc) ==
  {i \in 2..Len(doc) : StartsWith(doc[i], "**MERGE**: ") /\ doc[i - 1] = <<"---">>}

(* The lines of new that follow old, when old is a prefix of new: the rest
   of old's last line first. *)
AppendedLines(old, new) ==
  <<SubSeq(new[Len(old)], Len(old[Len(old)]) + 1, Len(new[Len(old)]))>>
    \o SubSeq(new, Len(old) + 1, Len(new))

NonEmptyLines(t) == {i \in 1..Len(t) : t[i] # E}

(***************************************************************************)
(* C11: a successful merge of source n with active branch D keeps D's      *)
(* commit history as a prefix and appends one merge block to it: a "---"   *)
(* line, a MERGE line naming n -> D, and the supplied summary under the    *)
(* merge-summary heading; the only other merge blocks the appended text    *)
(* holds are those of the inlined source history.                          *)
(***************************************************************************)
C11_MergeAppendsBlock ==
  [][\A n \in MergeTargets, s \in Summaries :
       (Merge(n, s) /\ commitDoc[n] # Absent) =>
         LET D == getCurrentBranch
             old == TextOr(commitDoc[D], EmptyText)
             new == commitDoc'[D]
             k == Len(old)
         IN /\ IsPrefix(old, new)
            /\ Len(new) >= k + 5 + Len(s)
            /\ new[k] = old[k]
            /\ new[k + 1] = <<"---">>
            /\ new[k + 2] = <<"**MERGE**: ">> \o n[1] \o <<" -> ">> \o D[1]
            /\ new[k + 5] = <<"## Merge Summary">>
            /\ SubSeq(new, k + 6, k + 5 + Len(s)) = s
            /\ Cardinality(MergeHeaders(new))
                 = Cardinality(MergeHeaders(old)) + 1 + Cardinality(MergeHeaders(commitDoc[n]))
            /\ \A b \in Names \ {D} : commitDoc'[b] = commitDoc[b]]_vars

(* branch(exp), switch(main), merge(exp): main is active again and the last
   entry of its history is the merge of exp. *)
C11_Witness ==
  /\ ret = [op |-> "merge", ok |-> TRUE]
  /\ current = Main
  /\ commitDoc[Exp] # Absent
  /\ Len(history[Main]) >= 2
  /\ history[Main][Len(history[Main])].kind = "merge"
  /\ history[Main][Len(history[Main])].source = Exp

(***************************************************************************)
(* C12: a successful merge keeps the destination's trace log as a prefix   *)
(* and appends to it a blank line, the origin marker naming the source,    *)
(* and the whole trace log of the source.                                  *)
(***************************************************************************)
C12_MergeAppendsLog ==
  [][\A n \in MergeTargets, s \in Summaries :
       (Merge(n, s) /\ commitDoc[n] # Absent) =>
         LET D == getCurrentBranch
             old == TextOr(logDoc[D], EmptyText)
             src == TextOr(logDoc[n], EmptyText)
             new == logDoc'[D]
             k == Len(old)
         IN /\ IsPrefix(old, new)
            /\ Len(new) = k + 2 + Len(src) + 1
            /\ new[k] = old[k]
            /\ new[k + 1] = E
            /\ new[k + 2] = <<"== Merged from Branch: ">> \o n[1] \o <<" ==">>
            /\ SubSeq(new, k + 3, k + 2 + Len(src)) = src
            /\ new[Len(new)] = E]_vars

(* A merge has just run on a destination whose trace log held an entry, from
   another branch whose trace log holds an entry. *)
C12_Witness ==
  /\ ret = [op |-> "merge", ok |-> TRUE]
  /\ used.logs = 2
  /\ history[getCurrentBranch][Len(history[getCurrentBranch])].kind = "merge"
  /\ history[getCurrentBranch][Len(history[getCurrentBranch])].source # getCurrentBranch
  /\ NonEmptyLines(logDoc[history[getCurrentBranch][Len(history[getCurrentBranch])].source]) # {}
  /\ \E i \in 1..Len(logDoc[getCurrentBranch]) :
        /\ i > 2
        /\ StartsWith(logDoc[getCurrentBranch][i], "== Merged from Branch: ")
        /\ NonEmptyLines(SubSeq(logDoc[getCurrentBranch], 1, i - 1)) # {}
        /\ NonEmptyLines(SubSeq(logDoc[getCurrentBranch], i + 1, Len(logDoc[getCurrentBranch]))) # {}

C14_CommitRoadmap ==
  [][\A a \in CommitArgs :
       Commit(a) =>
         IF a.update_roadmap
         THEN /\ IsPrefix(roadmap, roadmap')
              /\ LET added == AppendedLines(roadmap, roadmap')
                 IN /\ Cardinality(NonEmptyLines(added)) = 1
                    /\ \A i \in NonEmptyLines(added) :
                         added[i] = <<"- [">> \o IsoDate(now) \o <<"] ">> \o a.message[1]
         ELSE roadmap' = roadmap]_vars

(* A commit with update_roadmap set has just run after a merge wrote its own
   line to the roadmap. *)
C14_Witness ==
  /\ ret.op = "commit"
  /\ used.merges = 1
  /\ Len(roadmap) >= 4
  /\ StartsWith(roadmap[Len(roadmap) - 1], "- [")
  /\ \E i \in 1..(Len(roadmap) - 2) : StartsWith(roadmap[i], "- [MERGE] ")

(***************************************************************************)
(* C15: branch purpose is first-wins.  Every commit in a branch's history  *)
(* records the purpose of the first entry of that history, whatever        *)
(* commits and merges came in between: the purpose given when the branch   *)
(* was created ("Main development branch" for the initialized main) when   *)
(* it is not blank, the purpose the first merge block carries when the     *)
(* history starts with a merge, and otherwise the default, "Main           *)
(* development branch" for main and "Branch: <name>" for another branch.   *)
(***************************************************************************)
DefaultPurpose(b) ==
  IF b = Main THEN T(<<"Main development branch">>) ELSE Concat(T(<<"Branch: ">>), b)

FirstPurpose(b) ==
  LET h == history[b][1]
  IN IF h.kind = "created"
     THEN IF Trim(h.branch_purpose) # EmptyText THEN Trim(h.branch_purpose)
          ELSE DefaultPurpose(b)
     ELSE IF h.kind = "merge"
     THEN IF h.purpose # T(<<"No purpose defined">>) THEN h.purpose ELSE DefaultPurpose(b)
     ELSE DefaultPurpose(b)

C15_PurposeFirstWins ==
  \A b \in Names :
    \A i \in 1..Len(history[b]) :
      IsCommit(b, i) => history[b][i].branch_purpose = FirstPurpose(b)

(* A commit has just run on a branch created with a purpose of its own,
   after that branch merged another branch whose purpose differs. *)
C15_Witness ==
  /\ ret.op = "commit"
  /\ \E b \in Names :
       /\ Len(history[b]) >= 3
       /\ history[b][1].kind = "created"
       /\ Trim(history[b][1].branch_purpose) # EmptyText
       /\ IsCommit(b, Len(history[b]))
       /\ \E j \in 2..(Len(history[b]) - 1) :
            /\ history[b][j].kind = "merge"
            /\ history[b][j].source # b
            /\ history[b][j].purpose # history[b][1].branch_purpose

(***************************************************************************)
(* The log window of memory_context on its own: the trace log of main      *)
(* holds one freeform entry of up to MaxEntryLines lines, or nothing, and  *)
(* one context call of level log reads it.                                 *)
(***************************************************************************)
NumberedLines(n) == [i \in 1..n |-> <<"line">> \o ToString36(i)]

EntryLog(n) ==
  Concat(EmptyText,
         LogEntry(IsoString(StartTime),
                  [entry |-> NumberedLines(n), observation |-> Absent,
                   thought |-> Absent, action |-> Absent]))

LineCounts == {{}, {0}, {1}, {2}, {3}, {DefaultLines}, {DefaultLines + 1}}
Offsets == {{}, {0}, {1}, {2}, {3}, {4}, {5}, {MaxEntryLines + 2}, {MaxEntryLines + 5}}

LogWindowArgs ==
  {[level |-> {"log"}, branch_name |-> Absent, commit_hash |-> Absent,
    lines |-> l, offset |-> k] : l \in LineCounts, k \in Offsets}

InitLogWindow ==
  /\ now = StartTime
  /\ commitDoc = [b \in Names |-> IF b = Main THEN MainHeader(IsoString(StartTime)) ELSE Absent]
  /\ \E n \in 0..MaxEntryLines :
       logDoc = [b \in Names |-> IF b = Main
                                 THEN IF n = 0 THEN EmptyText ELSE EntryLog(n)
                                 ELSE Absent]
  /\ metaDoc = [b \in Names |-> Absent]
  /\ roadmap = RoadmapHeader(IsoString(StartTime))
  /\ current = Absent
  /\ branchDirs = {Main}
  /\ used = [commits |-> 0, branches |-> 0, merges |-> 0, logs |-> 0, reads |-> 0]
  /\ ret = [op |-> "init", ok |-> TRUE]
  /\ history = [b \in Names |->
                 IF b = Main
                 THEN <<[kind |-> "created", branch_purpose |-> T(<<"Main development branch">>)]>>
                 ELSE <<>>]
  /\ calls = NoCalls

NextLogWindow == \E a \in LogWindowArgs : Context(a)

SpecLogWindow == InitLogWindow /\ [][NextLogWindow]_vars

(* The window [total - L - K, total - K) with both bounds clamped to
   [0, total], as lines of the log. *)
Clamp(x, total) == Max({0, Min({x, total})})

ClampedWindow(logLines, L, K) ==
  LET total == Len(logLines)
      lo == Clamp(total - L - K, total)
      hi == Clamp(total - K, total)
  IN IF lo >= hi THEN <<>> ELSE SubSeq(logLines, lo + 1, hi)

IsLogCall == ret.op = "context" /\ ret.args.level = {"log"} /\ ret.ok

(***************************************************************************)
(* C16: a context call of level log with lineCount L >= 1 and offset       *)
(* K >= 0 returns exactly the lines of the window [total - L - K,          *)
(* total - K) clamped to [0, total]; an offset at or beyond the start of   *)
(* the log gives no line.                                                  *)
(***************************************************************************)
C16_LogWindowClamped ==
  (/\ IsLogCall
   /\ ret.args.lines # {} /\ ret.args.offset # {}
   /\ Given(ret.args.lines) >= 1)
    => ret.out.shownLines
         = ClampedWindow(logDoc[ret.out.branch], Given(ret.args.lines), Given(ret.args.offset))

(***************************************************************************)
(* C17: a context call of level log with offset 0 and a supplied lineCount *)
(* L >= 0 returns exactly the last L lines of the trace log, all of them   *)
(* when there are fewer than L; with lineCount omitted it returns the last *)
(* 20.                                                                     *)
(***************************************************************************)
LastLines(logLines, L) ==
  IF L >= Len(logLines) THEN logLines
  ELSE SubSeq(logLines, Len(logLines) - L + 1, Len(logLines))

C17_LastLines ==
  (IsLogCall /\ ret.args.offset = {0})
    => ret.out.shownLines
         = LastLines(logDoc[ret.out.branch],
                     IF ret.args.lines = {} THEN DefaultLines ELSE Given(ret.args.lines))

(***************************************************************************)
(* C18: a context call of level branch on an existing branch b lists       *)
(* exactly the last min(10, n) of the n commits made on b, in commit       *)
(* order, each as hash and message, and no commit made on another branch,  *)
(* also after b has merged another branch; on a branch without a           *)
(* commit-history document it returns not-found.                           *)
(***************************************************************************)
RECURSIVE HistoryCommits(_, _)
HistoryCommits(b, i) ==
  IF i > Len(history[b]) THEN <<>>
  ELSE IF IsCommit(b, i)
  THEN <<[hash |-> history[b][i].hash, message |-> history[b][i].message[1]]>>
         \o HistoryCommits(b, i + 1)
  ELSE HistoryCommits(b, i + 1)

LastOf(seq, n) == IF Len(seq) <= n THEN seq ELSE SubSeq(seq, Len(seq) - n + 1, Len(seq))

C18_BranchListing ==
  \A b \in Names :
    IF commitDoc[b] = Absent
    THEN ~ContextBranch(b).ok
    ELSE /\ ContextBranch(b).ok
         /\ ContextBranch(b).lastTen = LastOf(HistoryCommits(b, 1), LastCommits)

(***************************************************************************)
(* C19: a context call of level commit on branch b with hash h returns     *)
(* branch-not-found when b has no commit-history document, an              *)
(* invalid-argument failure when h is missing, the block of the commit of  *)
(* b whose hash is h when there is one, and not-found otherwise, also when *)
(* h is only the beginning of the hash of a commit of b.                   *)
(***************************************************************************)
CommitsWithHash(b, h) ==
  {i \in 1..Len(history[b]) : IsCommit(b, i) /\ history[b][i].hash = h}

C19_CommitByHash ==
  \A b \in Names, h \in HashQueries \cup {Absent} :
    LET r == ContextCommit(b, h)
    IN IF commitDoc[b] = Absent THEN ~r.ok /\ r.error = "branch not found"
       ELSE IF h = Absent THEN ~r.ok /\ r.error = "commit_hash required"
       ELSE IF CommitsWithHash(b, h) # {}
       THEN /\ r.ok
            /\ Len(r.text) >= 4
            /\ r.text[1] = <<"---">>
            /\ r.text[2] = <<"**Commit**:", " ">> \o h
            /\ \E i \in CommitsWithHash(b, h) :
                 r.text[4] = <<"**Message**: ">> \o history[b][i].message[1]
       ELSE ~r.ok /\ r.error = "commit not found"

(***************************************************************************)
(* C20: memory_context is read-only: at every level, for an existing or a  *)
(* missing branch and any lines, offset or hash, it changes no             *)
(* commit-history, trace-log, metadata or roadmap document and not the     *)
(* active-branch pointer.                                                  *)
(***************************************************************************)
C20_ContextReadOnly ==
  [][\A a \in ContextArgs :
       Context(a) =>
         /\ commitDoc' = commitDoc /\ logDoc' = logDoc /\ metaDoc' = metaDoc
         /\ roadmap' = roadmap /\ current' = current
         /\ getCurrentBranch' = getCurrentBranch]_vars

(* A context call of level log has just failed on a branch that has no trace
   log, after other branches wrote theirs; the branch still has none. *)
C20_Witness ==
  /\ ret.op = "context" /\ ~ret.ok
  /\ ret.args.level = {"log"} /\ ret.args.branch_name = Exp
  /\ logDoc[Exp] = Absent
  /\ used.logs >= 1

(* The timestamp line that opens an entry: a line break, the bracketed
   timestamp, a line break. *)
StampLine(t) == <<E, <<"[">> \o IsoString(t) \o <<"]">>, E>>

(* One structured field of an entry: its label, its text and a blank line;
   nothing when the field was not supplied. *)
FieldStated(label, text) ==
  IF Truthy(text) THEN Cat(<<T(<<label>>), text, <<E, E>>>>) ELSE EmptyText

(* The body of an entry as stated: the freeform text alone when there is
   one, the supplied structured fields otherwise. *)
BodyStated(a) ==
  IF Truthy(a.entry) THEN a.entry
  ELSE Cat(<<FieldStated("Observation: ", a.observation),
             FieldStated("Thought: ", a.thought),
             FieldStated("Action: ", a.action)>>)

(***************************************************************************)
(* C21: memory_log appends exactly one entry to the trace log of the       *)
(* active branch: the log before the call is a prefix of the log after it, *)
(* what follows is a timestamp line and then the freeform text alone when  *)
(* a freeform entry was given (observation, thought and action are         *)
(* ignored), the supplied structured fields otherwise.                     *)
(***************************************************************************)
C21_LogAppendsEntry ==
  [][\A a \in LogArgs : Log(a) =>
       LET b == getCurrentBranch
           old == TextOr(logDoc[b], EmptyText)
       IN /\ IsPrefix(old, logDoc'[b])
          /\ logDoc'[b] = Concat(Concat(old, StampLine(now)), BodyStated(a))
          /\ \A o \in Names \ {b} : logDoc'[o] = logDoc[o]]_vars

(* A second memory_log has run on a branch whose log still holds the first
   entry. *)
C21_Witness ==
  /\ ret.op = "log"
  /\ used.logs = 2
  /\ used.commits = 0
  /\ Len(logDoc[getCurrentBranch]) > 4

(* The opening of a mirrored record: its type and scope on one line, its
   content on the next. *)
MemoryHeadStated(a) ==
  Cat(<< <<E, <<"**Memory Added**: ", a.type, " / ">>>>, a.scope,
         <<E, <<"Content: ">>>>, a.content, <<E, E>> >>)

(***************************************************************************)
(* C22: memory_remember mirrors the record into the trace log of the       *)
(* active branch: the log after the call is the log before it followed by  *)
(* an entry that carries the type, the scope and the content, and no       *)
(* document of any other branch changes.                                   *)
(***************************************************************************)
C22_RememberMirrors ==
  [][\A a \in RememberArgs : Remember(a) =>
       LET b == getCurrentBranch
           old == TextOr(logDoc[b], EmptyText)
       IN /\ IsPrefix(old, logDoc'[b])
          /\ IsPrefix(Concat(old, MemoryHeadStated(a)), logDoc'[b])
          /\ \A o \in Names \ {b} :
               /\ logDoc'[o] = logDoc[o]
               /\ commitDoc'[o] = commitDoc[o]
               /\ metaDoc'[o] = metaDoc[o]]_vars

(* A memory has been mirrored into the non-empty log of a branch other than
   main while main has a log of its own. *)
C22_Witness ==
  /\ ret.op = "remember"
  /\ getCurrentBranch = Exp
  /\ used.logs = 2
  /\ Len(logDoc[Exp]) > 5
  /\ logDoc[Main] # Absent

(***************************************************************************)
(* C23: main exists from first use and initialization destroys nothing:    *)
(* after the plugin has initialized, main has a commit-history document,   *)
(* and initializing again over existing state leaves every existing        *)
(* commit-history document, trace log and roadmap and the active-branch    *)
(* pointer as they were.                                                   *)
(***************************************************************************)
C23_InitNonDestructive ==
  [][MemoryPlugin =>
       /\ commitDoc'[Main] # Absent
       /\ \A b \in Names :
            /\ commitDoc[b] # Absent => commitDoc'[b] = commitDoc[b]
            /\ logDoc[b] # Absent => logDoc'[b] = logDoc[b]
       /\ roadmap # Absent => roadmap' = roadmap
       /\ current' = current
       /\ getCurrentBranch' = getCurrentBranch]_vars

(* The plugin has initialized again after a branch was created, a commit was
   recorded and a log entry was written. *)
C23_Witness ==
  /\ ret.op = "init"
  /\ used.commits > 0
  /\ used.branches > 0
  /\ used.logs > 0
  /\ current # Absent
  /\ logDoc[getCurrentBranch] # Absent
  /\ logDoc[getCurrentBranch] # EmptyText

(* The commits recorded anywhere, each as a branch and a position in that
   branch's history. *)
CommitPositions ==
  {p \in Names \X (1..MaxCommits + MaxMerges + 1) :
     /\ p[2] <= Len(history[p[1]])
     /\ history[p[1]][p[2]].kind = "commit"}

(***************************************************************************)
(* C24: every memory_commit generates a unique hash: no two commits, in    *)
(* the same branch or in different ones, carry the same hash, however      *)
(* close in time they are made.                                            *)
(***************************************************************************)
C24_HashesUnique ==
  \A p, q \in CommitPositions :
    p # q => history[p[1]][p[2]].hash # history[q[1]][q[2]].hash

(* Every document and the pointer are what they were. *)
StorageUnchanged ==
  UNCHANGED <<commitDoc, logDoc, metaDoc, roadmap, current, branchDirs, history>>

(* The branch a memory_context call reads. *)
ContextBranchOf(a) ==
  IF Truthy(a.branch_name) THEN a.branch_name ELSE getCurrentBranch

(* The failure a memory_context call is stated to report; "none" when its
   arguments name nothing that is missing. *)
ContextFailureStated(a) ==
  LET level == IF a.level = {} THEN "roadmap" ELSE Given(a.level)
      b == ContextBranchOf(a)
  IN IF level \in {"branch", "commits", "commit"} /\ commitDoc[b] = Absent
     THEN "branch not found"
     ELSE IF level = "commit" /\ a.commit_hash = Absent THEN "commit_hash required"
     ELSE IF level = "log" /\ logDoc[b] = Absent THEN "no logs"
     ELSE IF level = "metadata" /\ metaDoc[b] = Absent THEN "no metadata"
     ELSE "none"

(***************************************************************************)
(* C25: every not-found and invalid-argument outcome is a returned text    *)
(* and changes nothing: a merge from a missing source, a switch to a       *)
(* missing branch, a context read of a missing branch, log, metadata or    *)
(* commit hash, and a context read at level commit without a hash each     *)
(* return a failure and leave all documents and the pointer unchanged.     *)
(***************************************************************************)
C25_FailuresChangeNothing ==
  [][/\ \A n \in Names :
          Switch(n) /\ commitDoc[n] = Absent => ~ret'.ok /\ StorageUnchanged
     /\ \A n \in MergeTargets, s \in Summaries :
          Merge(n, s) /\ commitDoc[n] = Absent => ~ret'.ok /\ StorageUnchanged
     /\ \A a \in ContextArgs :
          Context(a) =>
            /\ ContextFailureStated(a) # "none" =>
                 ~ret'.ok /\ ret'.out.error = ContextFailureStated(a)
            /\ ~ret'.ok => StorageUnchanged]_vars

(* A context read has just failed to find a commit hash on a branch that has
   commits and a log entry. *)
C25_Witness ==
  /\ ret.op = "context"
  /\ ~ret.ok
  /\ ret.out.error = "commit not found"
  /\ used.commits > 0
  /\ used.logs > 0

(***************************************************************************)
(* C30: a merge extracts the purpose of its source by the rule a commit    *)
(* uses: for every existing source, the purpose written into the merge     *)
(* block is the purpose a memory_commit on the source would record at that *)
(* moment, the default for the source's name when its recorded purpose is  *)
(* blank.                                                                  *)
(***************************************************************************)
C30_MergePurposeAsCommit ==
  [][\A n \in MergeTargets, s \in Summaries :
       Merge(n, s) /\ commitDoc[n] # Absent =>
         /\ ret'.ok
         /\ Len(history'[getCurrentBranch]) > 0
         /\ history'[getCurrentBranch][Len(history'[getCurrentBranch])].kind = "merge"
         /\ history'[getCurrentBranch][Len(history'[getCurrentBranch])].purpose
              = BranchPurposeOf(n, commitDoc[n])]_vars

(***************************************************************************)
(* Tool calls in flight at the same time.  Each handler is an async        *)
(* function: between two of its awaited reads and writes another call may  *)
(* run.  A call is a record of the tool, its arguments, the step it is at  *)
(* (pc), the branch it read from the pointer, the texts it has read, the   *)
(* clock value it took, the documents it has written (wrote), the pointer  *)
(* as it stood when the call wrote the history (active), and whether the   *)
(* call was interrupted (halted).  Every caller makes one call.            *)
(***************************************************************************)
InFlight(p) == calls[p].op # "idle" /\ calls[p].pc # "done" /\ ~calls[p].halted

At(p, op, pc) == calls[p].op = op /\ calls[p].pc = pc /\ ~calls[p].halted

(* index.ts:443-446: log.execute up to the read of the log *)
LogStart(p, a) ==
  /\ calls[p].op = "idle"
  /\ calls' = [calls EXCEPT ![p] = [Idle EXCEPT !.op = "log", !.pc = "read", !.args = a,
                                                !.branch = getCurrentBranch, !.stamp = now]]
  /\ branchDirs' = branchDirs \cup {getCurrentBranch}
  /\ used' = [used EXCEPT !.logs = @ + 1]
  /\ UNCHANGED <<commitDoc, logDoc, metaDoc, roadmap, current, now, ret, history>>

(* index.ts:459 *)
LogRead(p) ==
  /\ At(p, "log", "read")
  /\ calls' = [calls EXCEPT ![p].existing = TextOr(logDoc[calls[p].branch], EmptyText),
                            ![p].pc = "write"]
  /\ UNCHANGED <<commitDoc, logDoc, metaDoc, roadmap, current, branchDirs, now, used, ret, history>>

(* A write that appends to the log as it is when the write happens. *)
LogWrittenFresh(p) ==
  Concat(TextOr(logDoc[calls[p].branch], EmptyText),
         LogEntry(IsoString(calls[p].stamp), calls[p].args))

(* index.ts:460: `existing + logEntry` *)
LogWritten(p) ==
  Concat(calls[p].existing, LogEntry(IsoString(calls[p].stamp), calls[p].args))

(* index.ts:460-462 *)
LogWrite(p) ==
  /\ At(p, "log", "write")
  /\ logDoc' = [logDoc EXCEPT ![calls[p].branch] = LogWritten(p)]
  /\ calls' = [calls EXCEPT ![p].pc = "done", ![p].wrote = @ \cup {"log.md"}]
  /\ ret' = [op |-> "log", ok |-> TRUE]
  /\ UNCHANGED <<commitDoc, metaDoc, roadmap, current, branchDirs, now, used, history>>

(* index.ts:113-123: commit.execute up to the first read of the history *)
CommitStart(p, a) ==
  /\ calls[p].op = "idle"
  /\ calls' = [calls EXCEPT ![p] = [Idle EXCEPT !.op = "commit", !.pc = "content", !.args = a,
                                                !.branch = getCurrentBranch, !.stamp = now]]
  /\ branchDirs' = branchDirs \cup {getCurrentBranch}
  /\ used' = [used EXCEPT !.commits = @ + 1]
  /\ UNCHANGED <<commitDoc, logDoc, metaDoc, roadmap, current, now, ret, history>>

(* index.ts:130-131 *)
CommitReadContent(p) ==
  /\ At(p, "commit", "content")
  /\ calls' = [calls EXCEPT ![p].content = commitDoc[calls[p].branch], ![p].pc = "existing"]
  /\ UNCHANGED <<commitDoc, logDoc, metaDoc, roadmap, current, branchDirs, now, used, ret, history>>

(* index.ts:179 *)
CommitReadExisting(p) ==
  /\ At(p, "commit", "existing")
  /\ calls' = [calls EXCEPT ![p].existing = TextOr(commitDoc[calls[p].branch], EmptyText),
                            ![p].pc = "append"]
  /\ UNCHANGED <<commitDoc, logDoc, metaDoc, roadmap, current, branchDirs, now, used, ret, history>>

(* index.ts:128-177: the block, from what the call read *)
CommitEntryOf(p) ==
  LET c == calls[p]
      previousSummary == IF c.content = Absent THEN EmptyText ELSE PreviousSummaryOf(c.content)
  IN CommitEntry(ToString36(c.stamp), IsoString(c.stamp), c.args.message,
                 BranchPurposeOf(c.branch, c.content), previousSummary, c.args.contribution)

(* A commit that asks the pointer again when it writes. *)
CommitTargetReread(p) == getCurrentBranch

(* index.ts:118-119: commitFile and logFile are bound to the branch read at
   the start *)
CommitTarget(p) == calls[p].branch

(* index.ts:180 *)
CommitAppend(p) ==
  /\ At(p, "commit", "append")
  /\ commitDoc' = [commitDoc EXCEPT ![CommitTarget(p)] =
                     Concat(calls[p].existing, CommitEntryOf(p))]
  /\ history' = [history EXCEPT ![CommitTarget(p)] =
                   Append(@, [kind |-> "commit", hash |-> ToString36(calls[p].stamp),
                              message |-> calls[p].args.message])]
  /\ calls' = [calls EXCEPT ![p].pc = "clear", ![p].wrote = @ \cup {"commit.md"},
                            ![p].active = getCurrentBranch]
  /\ UNCHANGED <<logDoc, metaDoc, roadmap, current, branchDirs, now, used, ret>>

(* A commit that empties the log before it has written the history. *)
CommitClearFirst(p) ==
  /\ At(p, "commit", "append")
  /\ "log.md" \notin calls[p].wrote
  /\ logDoc' = [logDoc EXCEPT ![CommitTarget(p)] = ClearedLog]
  /\ calls' = [calls EXCEPT ![p].wrote = @ \cup {"log.md"}]
  /\ UNCHANGED <<commitDoc, metaDoc, roadmap, current, branchDirs, now, used, ret, history>>

(* index.ts:183, and the return at 192 when the roadmap is not asked for *)
CommitClear(p) ==
  /\ At(p, "commit", "clear")
  /\ logDoc' = [logDoc EXCEPT ![CommitTarget(p)] = ClearedLog]
  /\ calls' = [calls EXCEPT ![p].pc = IF calls[p].args.update_roadmap THEN "roadmap" ELSE "done",
                            ![p].wrote = @ \cup {"log.md"}]
  /\ ret' = IF calls[p].args.update_roadmap THEN ret ELSE [op |-> "commit", ok |-> TRUE]
  /\ UNCHANGED <<commitDoc, metaDoc, roadmap, current, branchDirs, now, used, history>>

(* index.ts:186-188 *)
CommitReadRoadmap(p) ==
  /\ At(p, "commit", "roadmap")
  /\ calls' = [calls EXCEPT ![p].mainContent = TextOr(roadmap, RoadmapDefault),
                            ![p].pc = "roadmap write"]
  /\ UNCHANGED <<commitDoc, logDoc, metaDoc, roadmap, current, branchDirs, now, used, ret, history>>

(* index.ts:189-192 *)
CommitWriteRoadmap(p) ==
  /\ At(p, "commit", "roadmap write")
  /\ roadmap' = Concat(calls[p].mainContent, RoadmapCommitLine(calls[p].stamp, calls[p].args.message))
  /\ calls' = [calls EXCEPT ![p].pc = "done", ![p].wrote = @ \cup {"main.md"}]
  /\ ret' = [op |-> "commit", ok |-> TRUE]
  /\ UNCHANGED <<commitDoc, logDoc, metaDoc, current, branchDirs, now, used, history>>

(* index.ts:556-562 *)
SwitchCheck(p, name) ==
  /\ calls[p].op = "idle"
  /\ calls' = [calls EXCEPT ![p] = [Idle EXCEPT !.op = "switch", !.args = name,
                                                !.pc = IF exists(name) THEN "write" ELSE "done"]]
  /\ ret' = IF exists(name) THEN ret ELSE [op |-> "switch", ok |-> FALSE]
  /\ UNCHANGED <<commitDoc, logDoc, metaDoc, roadmap, current, branchDirs, now, used, history>>

(* index.ts:564-565 *)
SwitchWrite(p) ==
  /\ At(p, "switch", "write")
  /\ current' = setCurrentBranch(calls[p].args)
  /\ calls' = [calls EXCEPT ![p].pc = "done", ![p].wrote = @ \cup {"current_branch"}]
  /\ ret' = [op |-> "switch", ok |-> TRUE]
  /\ UNCHANGED <<commitDoc, logDoc, metaDoc, roadmap, branchDirs, now, used, history>>

(* index.ts:204-220 *)
BranchStart(p, a) ==
  /\ calls[p].op = "idle"
  /\ calls' = [calls EXCEPT ![p] = [Idle EXCEPT !.op = "branch", !.pc = "log", !.args = a,
                                                !.stamp = now, !.wrote = {"commit.md"}]]
  /\ branchDirs' = branchDirs \cup {a.name}
  /\ commitDoc' = [commitDoc EXCEPT ![a.name] = InitCommit(a.name, a.purpose, IsoString(now))]
  /\ history' = [history EXCEPT ![a.name] = <<[kind |-> "created", branch_purpose |-> a.purpose]>>]
  /\ used' = [used EXCEPT !.branches = @ + 1]
  /\ UNCHANGED <<logDoc, metaDoc, roadmap, current, now, ret>>

(* index.ts:223 *)
BranchWriteLog(p) ==
  /\ At(p, "branch", "log")
  /\ logDoc' = [logDoc EXCEPT ![calls[p].args.name] = EmptyText]
  /\ calls' = [calls EXCEPT ![p].pc = "metadata", ![p].wrote = @ \cup {"log.md"}]
  /\ UNCHANGED <<commitDoc, metaDoc, roadmap, current, branchDirs, now, used, ret, history>>

(* index.ts:226 *)
BranchWriteMetadata(p) ==
  /\ At(p, "branch", "metadata")
  /\ metaDoc' = [metaDoc EXCEPT ![calls[p].args.name] =
                   Metadata(calls[p].args.name, IsoString(calls[p].stamp))]
  /\ calls' = [calls EXCEPT ![p].pc = "pointer", ![p].wrote = @ \cup {"metadata.yaml"}]
  /\ UNCHANGED <<commitDoc, logDoc, roadmap, current, branchDirs, now, used, ret, history>>

(* index.ts:229-231 *)
BranchSetCurrent(p) ==
  /\ At(p, "branch", "pointer")
  /\ current' = setCurrentBranch(calls[p].args.name)
  /\ calls' = [calls EXCEPT ![p].pc = "done", ![p].wrote = @ \cup {"current_branch"}]
  /\ ret' = [op |-> "branch", ok |-> TRUE]
  /\ UNCHANGED <<commitDoc, logDoc, metaDoc, roadmap, branchDirs, now, used, history>>

(* The process is stopped while a call waits for a read or a write. *)
Interrupt(p) ==
  /\ InFlight(p)
  /\ calls' = [calls EXCEPT ![p].halted = TRUE]
  /\ UNCHANGED <<commitDoc, logDoc, metaDoc, roadmap, current, branchDirs, now, used, ret, history>>

(* The branches other than main that exist when the calls begin. *)
RaceBranches == {Exp, PaddedExp}

(* The storage when the calls begin: a log entry was written on main, one
   branch was created with memory_branch a millisecond after the plugin
   initialized, and the caller has or has not switched back to main. *)
InitRace ==
  /\ now = StartTime + 1
  /\ \E e \in RaceBranches : \E c \in {Main, e} :
       /\ commitDoc = [b \in Names |->
                         IF b = Main THEN MainHeader(IsoString(StartTime))
                         ELSE IF b = e THEN InitCommit(e, T(<<"p">>), IsoString(StartTime + 1))
                         ELSE Absent]
       /\ logDoc = [b \in Names |->
                      IF b = Main
                      THEN Concat(EmptyText,
                                  LogEntry(IsoString(StartTime),
                                           [entry |-> Absent, observation |-> T(<<"o">>),
                                            thought |-> Absent, action |-> Absent]))
                      ELSE IF b = e THEN EmptyText
                      ELSE Absent]
       /\ metaDoc = [b \in Names |-> IF b = e THEN Metadata(e, IsoString(StartTime + 1)) ELSE Absent]
       /\ current = setCurrentBranch(c)
       /\ branchDirs = {Main, e}
       /\ ret = [op |-> IF c = e THEN "branch" ELSE "switch", ok |-> TRUE]
       /\ history = [b \in Names |->
                       IF b = Main
                       THEN <<[kind |-> "created",
                               branch_purpose |-> T(<<"Main development branch">>)]>>
                       ELSE IF b = e
                       THEN <<[kind |-> "created", branch_purpose |-> T(<<"p">>)]>>
                       ELSE <<>>]
  /\ roadmap = RoadmapHeader(IsoString(StartTime))
  /\ used = [commits |-> 0, branches |-> 1, merges |-> 0, logs |-> 1, reads |-> 0]
  /\ calls = NoCalls

DoLogStart == \E p \in Callers, a \in LogArgs : LogStart(p, a)
DoLogRead == \E p \in Callers : LogRead(p)
DoLogWrite == \E p \in Callers : LogWrite(p)
DoCommitStart == \E p \in Callers, a \in CommitArgs : CommitStart(p, a)
DoCommitReadContent == \E p \in Callers : CommitReadContent(p)
DoCommitReadExisting == \E p \in Callers : CommitReadExisting(p)
DoCommitAppend == \E p \in Callers : CommitAppend(p)
DoCommitClear == \E p \in Callers : CommitClear(p)
DoCommitReadRoadmap == \E p \in Callers : CommitReadRoadmap(p)
DoCommitWriteRoadmap == \E p \in Callers : CommitWriteRoadmap(p)
DoSwitchCheck == \E p \in Callers, n \in Names : SwitchCheck(p, n)
DoSwitchWrite == \E p \in Callers : SwitchWrite(p)
DoBranchStart == \E p \in Callers, a \in BranchArgs : BranchStart(p, a)
DoBranchWriteLog == \E p \in Callers : BranchWriteLog(p)
DoBranchWriteMetadata == \E p \in Callers : BranchWriteMetadata(p)
DoBranchSetCurrent == \E p \in Callers : BranchSetCurrent(p)
DoInterrupt == \E p \in Callers : Interrupt(p)

NextRace ==
  \/ DoLogStart
  \/ DoLogRead
  \/ DoLogWrite
  \/ DoCommitStart
  \/ DoCommitReadContent
  \/ DoCommitReadExisting
  \/ DoCommitAppend
  \/ DoCommitClear
  \/ DoCommitReadRoadmap
  \/ DoCommitWriteRoadmap
  \/ DoSwitchCheck
  \/ DoSwitchWrite
  \/ DoBranchStart
  \/ DoBranchWriteLog
  \/ DoBranchWriteMetadata
  \/ DoBranchSetCurrent
  \/ DoInterrupt

SpecRace == InitRace /\ [][NextRace]_vars

(* The entry a memory_log call in flight writes. *)
EntryOf(p) == LogEntry(IsoString(calls[p].stamp), calls[p].args)

(* q is a finished memory_log call on the branch of p that read the log p
   read and wrote another entry. *)
RacedWith(p, q) ==
  /\ q # p
  /\ calls[q].op = "log" /\ calls[q].pc = "done"
  /\ calls[q].branch = calls[p].branch
  /\ calls[q].existing = calls[p].existing
  /\ calls[q].args # calls[p].args

(***************************************************************************)
(* C26: two concurrent memory_log calls on one active branch can lose an   *)
(* update.  Nothing locks the log between the read of its content and the  *)
(* write of content plus entry: when both calls have read the log before   *)
(* either writes, the log after the second write is the content both read  *)
(* followed by the second entry only, and the first entry is gone.         *)
(***************************************************************************)
C26_LostUpdate ==
  [][\A p \in Callers : LogWrite(p) =>
       /\ logDoc'[calls[p].branch] = Concat(calls[p].existing, EntryOf(p))
       /\ \A q \in Callers : RacedWith(p, q) =>
            /\ IsPrefix(Concat(calls[q].existing, EntryOf(q)), logDoc[calls[p].branch])
            /\ ~IsPrefix(Concat(calls[q].existing, EntryOf(q)), logDoc'[calls[p].branch])]_vars

(* Both calls have finished, both had read the same log, and the log holds
   the entry of one of them only. *)
C26_Witness ==
  \E p, q \in Callers :
    /\ calls[p].op = "log" /\ calls[p].pc = "done"
    /\ RacedWith(p, q)
    /\ logDoc[calls[p].branch] = Concat(calls[p].existing, EntryOf(p))
    /\ ~IsPrefix(Concat(calls[q].existing, EntryOf(q)), logDoc[calls[p].branch])
    /\ calls[p].existing # EmptyText

(* No other caller has a call that writes the commit history of the branch
   the call of p read: the others are idle, log, switch, or create or commit
   to another branch. *)
Undisturbed(p) ==
  \A q \in Callers \ {p} :
    \/ calls[q].op \in {"idle", "log", "switch"}
    \/ calls[q].op = "branch" /\ calls[q].args.name # calls[p].branch
    \/ calls[q].op = "commit" /\ calls[q].branch # calls[p].branch

(***************************************************************************)
(* C27: a commit reads the pointer once, at its start, and never again.    *)
(* A commit that read branch B appends its block to the history of B and   *)
(* clears the log of B even when a concurrent switch or branch creation    *)
(* has changed the pointer before the commit writes; it writes no document *)
(* of the branch that has become active.                                   *)
(***************************************************************************)
C27_CommitKeepsBranch ==
  [][\A p \in Callers :
       /\ CommitAppend(p) =>
            /\ commitDoc'[calls[p].branch] = Concat(calls[p].existing, CommitEntryOf(p))
            /\ Undisturbed(p) =>
                 /\ IsPrefix(TextOr(commitDoc[calls[p].branch], EmptyText),
                             commitDoc'[calls[p].branch])
                 /\ commitDoc'[calls[p].branch] # commitDoc[calls[p].branch]
            /\ \A b \in Names \ {calls[p].branch} : commitDoc'[b] = commitDoc[b]
            /\ logDoc' = logDoc
       /\ CommitClear(p) =>
            /\ logDoc'[calls[p].branch] = EmptyText
            /\ \A b \in Names \ {calls[p].branch} : logDoc'[b] = logDoc[b]
            /\ commitDoc' = commitDoc]_vars

(* A commit has finished on the branch it read although the pointer named
   another branch when the commit wrote the history: the block is in the
   history of the branch it read and that branch's log is empty. *)
C27_Witness ==
  \E p \in Callers :
    /\ calls[p].op = "commit" /\ calls[p].pc = "done"
    /\ calls[p].active # calls[p].branch
    /\ getCurrentBranch # calls[p].branch
    /\ commitDoc[calls[p].branch] = Concat(calls[p].existing, CommitEntryOf(p))
    /\ logDoc[calls[p].branch] = EmptyText
    /\ calls[p].branch = Main

(***************************************************************************)
(* C28: within a commit the append to the history strictly precedes the    *)
(* clearing of the log.  In every reachable state, a state where the call  *)
(* was interrupted between the two writes included, a log cleared by a     *)
(* commit implies that the commit's block has been written to the history, *)
(* where it is the last block unless another call writes that history too; *)
(* a commit interrupted between the two writes is a recorded commit whose  *)
(* log is not yet cleared.                                                 *)
(***************************************************************************)
C28_AppendBeforeClear ==
  \A p \in Callers :
    calls[p].op = "commit" =>
      /\ "log.md" \in calls[p].wrote => "commit.md" \in calls[p].wrote
      /\ calls[p].pc = "clear" =>
           "commit.md" \in calls[p].wrote /\ "log.md" \notin calls[p].wrote
      /\ "commit.md" \in calls[p].wrote /\ Undisturbed(p) =>
           commitDoc[calls[p].branch] = Concat(calls[p].existing, CommitEntryOf(p))

(* A commit was interrupted between its two writes: its block is the last of
   the history and the log still holds its entry. *)
C28_Witness ==
  \E p \in Callers :
    /\ calls[p].op = "commit" /\ calls[p].pc = "clear" /\ calls[p].halted
    /\ commitDoc[calls[p].branch] = Concat(calls[p].existing, CommitEntryOf(p))
    /\ logDoc[calls[p].branch] # Absent
    /\ logDoc[calls[p].branch] # EmptyText

(* p has finished a memory_switch to a branch that existed. *)
Switched(p) ==
  /\ calls[p].op = "switch" /\ calls[p].pc = "done"
  /\ "current_branch" \in calls[p].wrote

(***************************************************************************)
(* C29: concurrent switches are last-write-wins and never leave a bad      *)
(* pointer: once two concurrent memory_switch calls to existing branches a *)
(* and b have both completed, the active-branch pointer is a or b and      *)
(* names an existing branch.                                               *)
(***************************************************************************)
C29_SwitchLastWriteWins ==
  \A p, q \in Callers :
    p # q /\ Switched(p) /\ Switched(q) =>
      /\ getCurrentBranch \in {calls[p].args, calls[q].args}
      /\ commitDoc[getCurrentBranch] # Absent

(* The previous-progress summary the next commit on a branch would record:
   the fold of its last commit, or the initial-commit value when there is
   nothing to fold. *)
NextSummaryOf(doc) ==
  IF PreviousSummaryOf(doc) # EmptyText THEN PreviousSummaryOf(doc) ELSE InitialCommit

(***************************************************************************)
(* C31: the progress recorded in a merge block is the folded summary of    *)
(* the source: for every existing source, with no commit, one or many, it  *)
(* is the previous-progress summary the next commit on the source would    *)
(* compute, the initial-commit value when the source has no commits.       *)
(***************************************************************************)
C31_MergeProgressAsCommit ==
  [][\A n \in MergeTargets, s \in Summaries :
       Merge(n, s) /\ commitDoc[n] # Absent =>
         /\ Len(history'[getCurrentBranch]) > 0
         /\ history'[getCurrentBranch][Len(history'[getCurrentBranch])].kind = "merge"
         /\ history'[getCurrentBranch][Len(history'[getCurrentBranch])].progress
              = NextSummaryOf(commitDoc[n])]_vars

(* The documents of every branch but the active one, the metadata of all of
   them, and the pointer are what they were. *)
OthersUnchanged ==
  /\ \A o \in Names \ {getCurrentBranch} :
       /\ commitDoc'[o] = commitDoc[o]
       /\ logDoc'[o] = logDoc[o]
       /\ metaDoc'[o] = metaDoc[o]
  /\ current' = current
  /\ getCurrentBranch' = getCurrentBranch

(***************************************************************************)
(* C32: branch isolation.  memory_commit, memory_log and memory_remember   *)
(* modify documents of the active branch only, and memory_commit the       *)
(* roadmap: the commit history, trace log and metadata of every other      *)
(* branch are unchanged, and none of the three changes the active-branch   *)
(* pointer.                                                                *)
(***************************************************************************)
C32_BranchIsolation ==
  [][/\ \A a \in CommitArgs : Commit(a) => OthersUnchanged
     /\ \A a \in LogArgs : Log(a) => OthersUnchanged /\ roadmap' = roadmap /\ commitDoc' = commitDoc
     /\ \A a \in RememberArgs :
          Remember(a) => OthersUnchanged /\ roadmap' = roadmap /\ commitDoc' = commitDoc]_vars

(* A commit has run on a branch other than main while main has a log entry
   and the branch has its metadata. *)
C32_Witness ==
  /\ ret.op = "commit"
  /\ getCurrentBranch = Exp
  /\ metaDoc[Exp] # Absent
  /\ logDoc[Main] # Absent
  /\ logDoc[Main] # EmptyText
  /\ Len(history[Exp]) > 1

(* A query word taken from the content of a memory. *)
WordOf(m) == m.content[1][1]

(* memory_recall on branch b with a word of the memory's content returns a
   result that holds the content. *)
Recalled(m, b) ==
  LET out == RecallResult([query |-> {WordOf(m)}, branch_name |-> b, scope |-> {}, type |-> {}])
  IN \/ \E i \in 1..Len(out.logResults) : Includes(out.logResults[i], WordOf(m))
     \/ \E i \in 1..Len(out.commitResults) : Includes(out.commitResults[i], WordOf(m))

(***************************************************************************)
(* C33: a memory stored with memory_remember on a branch stays             *)
(* retrievable: right after it is stored, and after every later memory_log *)
(* and memory_commit on that branch, memory_recall on the branch with a    *)
(* query word taken from its content returns a result that holds the       *)
(* content.                                                                *)
(***************************************************************************)
C33_MemoryStaysRetrievable ==
  [][\A m \in RememberArgs :
       /\ Remember(m) => Recalled(m, getCurrentBranch)'
       /\ (DoLog \/ DoCommit) /\ Recalled(m, getCurrentBranch) =>
            Recalled(m, getCurrentBranch)']_vars

(***************************************************************************)
(* C34: every existing branch has all three of its documents: in every     *)
(* reachable state each branch with a commit-history document, main        *)
(* included, also has a trace-log document and a metadata document, so     *)
(* that memory_context at level log and at level metadata never reports    *)
(* not-found for an existing branch.                                       *)
(***************************************************************************)
C34_ThreeDocuments ==
  \A b \in Names :
    commitDoc[b] # Absent =>
      /\ logDoc[b] # Absent
      /\ metaDoc[b] # Absent
      /\ ContextLog(b, {}, {}).ok
      /\ ContextMetadata(b).ok

(* The position of a line in a log whose lines all differ. *)
PositionIn(logLines, line) == CHOOSE i \in 1..Len(logLines) : logLines[i] = line

(* The window `next` ends exactly where the window `shown` starts: its last
   line is the line before the first line of `shown`. *)
EndsWhereStarts(logLines, next, shown) ==
  /\ next # <<>> /\ shown # <<>>
  /\ PositionIn(logLines, next[Len(next)]) + 1 = PositionIn(logLines, shown[1])

(***************************************************************************)
(* C35: log scrolling tiles the log going up.  Whenever a context call of  *)
(* level log with lineCount L (20 when omitted) and offset K (0 when       *)
(* omitted) reports that earlier lines remain, it suggests the offset      *)
(* K + L, and the call with that offset and the same lineCount returns the *)
(* window that ends exactly where the current window starts, no line       *)
(* skipped and none repeated; the earlier-lines indicator is shown exactly *)
(* when the current window does not start at the first line.               *)
(***************************************************************************)
C35_ScrollUpTiles ==
  IsLogCall =>
    LET logLines == logDoc[ret.out.branch]
        L == IF ret.args.lines = {} THEN DefaultLines ELSE Given(ret.args.lines)
        K == IF ret.args.offset = {} THEN 0 ELSE Given(ret.args.offset)
        shown == ret.out.shownLines
        next == ContextLog(ret.out.branch, ret.args.lines, {K + L})
    IN /\ ret.out.hasMore =>
            /\ ret.out.up = K + L
            /\ next.ok
            /\ EndsWhereStarts(logLines, next.shownLines, shown)
       /\ ret.out.hasMore <=> (shown # <<>> /\ shown[1] # logLines[1])

====
